---- MODULE Spec2Model ----
(***************************************************************************)
(* create-agentverse-agent: the configuration data model (context.py) and  *)
(* the scaffolding pipeline (scaffold.py, templates.py).                   *)
(*                                                                         *)
(* A Python str is modelled as a sequence of one-character strings, so     *)
(* that slicing, lower(), replace(), the field patterns and repr() are     *)
(* computed character by character as the code computes them.              *)
(***************************************************************************)
EXTENDS Integers, Sequences, FiniteSets, TLC

VARIABLES
    kwargs,        \* keyword arguments of the last AgentContext(...) call
    config,        \* the AgentContext instance (its stored fields), or NoConfig
    outcome,       \* "none" | "ok" | "ValidationError" | "AgentContextError"
    errfields,     \* fields named by the ValidationError
    assigns,       \* number of field assignments made after construction
    assigned,      \* the last assignment config.f = v: field and value
    setattr_raised, \* exception raised by the last assignment, or "none"
    fs,            \* filesystem under cwd: path (sequence of names) -> node
    renderer,      \* the BaseTemplateRenderer handed to Scaffolder.__init__
    overwrite,     \* the overwrite argument of create_project
    ioFault,       \* the filesystem operation the environment refuses, or "none"
    pc,            \* position inside create_project
    idx,           \* index of the next TEMPLATE_MAP item of the write loop
    context_dict,  \* local context_dict of create_project
    render_calls,  \* templates passed to renderer.render, in call order
    raised,        \* exception that left create_project, or "none"
    message,       \* str() of a raised ScaffoldError
    returned,      \* value returned by create_project, or NoPath
    fs0,           \* the filesystem as it was when create_project was called
    storage,       \* identifiers of the files in the package's templates directory
    storage_edits, \* number of files added to or removed from that directory
    listing,        \* the last TemplateRenderer.list_templates() call and its result
    rendered,      \* the last TemplateRenderer.render() call and its result
    cli_pc,        \* position inside the CLI command main
    default,       \* the --default option
    advanced,      \* the --advanced option
    collector_calls, \* the collectors collect_configuration called: name and skip
    effects,       \* what each of those calls did: questions, messages, assignments
    int_prompt,    \* the last direct prompt_int call: default, typed lines, result
    confirmed,     \* the answer to "Ready to create your agent?", or "unasked"
    create_calls,  \* number of create_project invocations made by main
    handled,       \* the except clause of main that ran, or "none"
    shown          \* the outcome messages main has printed

vars == <<kwargs, config, outcome, errfields, assigns, assigned, setattr_raised, fs, renderer, overwrite,
          ioFault, pc, idx, context_dict, render_calls, raised, message, returned,
          fs0, storage, storage_edits, listing, rendered, cli_pc, default, advanced,
          collector_calls, effects, int_prompt, confirmed, create_calls, handled, shown>>

configVars == <<kwargs, config, outcome, errfields, assigns, assigned, setattr_raised>>
scaffoldVars == <<fs, renderer, overwrite, ioFault, pc, idx, context_dict,
                  render_calls, raised, message, returned, fs0>>
rendererVars == <<storage, storage_edits, listing, rendered>>
cliVars == <<cli_pc, default, advanced, collector_calls, effects, int_prompt, confirmed,
             create_calls,
             handled, shown>>

----------------------------------------------------------------------------
(* Characters and strings *)

LowerSeq == <<"a", "b", "c", "d", "e", "f", "g", "h", "i", "j", "k", "l", "m", "n", "o", "p", "q", "r", "s", "t", "u", "v", "w", "x", "y", "z">>
UpperSeq == <<"A", "B", "C", "D", "E", "F", "G", "H", "I", "J", "K", "L", "M", "N", "O", "P", "Q", "R", "S", "T", "U", "V", "W", "X", "Y", "Z">>
DigitSeq == <<"0", "1", "2", "3", "4", "5", "6", "7", "8", "9">>

Range(s) == {s[i] : i \in 1..Len(s)}

Lower == Range(LowerSeq)
Upper == Range(UpperSeq)
Digit == Range(DigitSeq)
Alnum == Lower \cup Upper \cup Digit

\* Characters matched by \s of the pattern engine (the ones the model draws).
Whitespace == {" ", "\t", "\n"}

\* Python None.  A value no str can equal: its one element is not a character.
None == <<"None">>

\* bool(v) for a str-or-None value
Truthy(v) == v # None /\ v # <<>>

AllIn(s, cls) == \A i \in 1..Len(s) : s[i] \in cls

\* str.lower() on one character
LowerChar(c) ==
    IF c \in Upper THEN LowerSeq[CHOOSE i \in 1..Len(UpperSeq) : UpperSeq[i] = c]
    ELSE c

\* str.lower()
StrLower(s) == [i \in 1..Len(s) |-> LowerChar(s[i])]

\* str.replace(old, new) for one-character old and new
StrReplace(s, old, new) == [i \in 1..Len(s) |-> IF s[i] = old THEN new ELSE s[i]]

\* s[:n]
Prefix(s, n) == SubSeq(s, 1, IF Len(s) < n THEN Len(s) ELSE n)

\* sub in s
Contains(s, sub) ==
    \E i \in 0..(Len(s) - Len(sub)) : SubSeq(s, i + 1, i + Len(sub)) = sub

RECURSIVE NatToStr(_)
NatToStr(n) ==
    IF n < 10 THEN <<DigitSeq[n + 1]>>
    ELSE NatToStr(n \div 10) \o <<DigitSeq[(n % 10) + 1]>>

\* str(n) for an int
IntToStr(n) == IF n < 0 THEN <<"-">> \o NatToStr(-n) ELSE NatToStr(n)

\* s * n
Repeat(s, n) == [i \in 1..(n * Len(s)) |-> s[((i - 1) % Len(s)) + 1]]

RECURSIVE ReplaceAll(_, _, _)
\* s.replace(old, new) for a non-empty old
ReplaceAll(s, old, new) ==
    IF Len(s) < Len(old) THEN s
    ELSE IF SubSeq(s, 1, Len(old)) = old
    THEN new \o ReplaceAll(SubSeq(s, Len(old) + 1, Len(s)), old, new)
    ELSE <<Head(s)>> \o ReplaceAll(Tail(s), old, new)

RECURSIVE SplitOn(_, _)
\* s.split(sep) for a one-character sep
SplitOn(s, sep) ==
    IF \A i \in 1..Len(s) : s[i] # sep THEN <<s>>
    ELSE LET k == CHOOSE i \in 1..Len(s) :
                      s[i] = sep /\ \A j \in 1..(i - 1) : s[j] # sep
         IN <<SubSeq(s, 1, k - 1)>> \o SplitOn(SubSeq(s, k + 1, Len(s)), sep)

----------------------------------------------------------------------------
(* AgentContext: fields, defaults and field constraints (context.py) *)

NameMinLength == 1
NameMaxLength == 100
SeedMinLength == 1
SeedMaxLength == 500
SeedBytes == 32
PortMin == 1024
PortMax == 65535
DefaultAgentPort == 8000
DefaultHostingPort == 8080
DescriptionMinLength == 1
DescriptionMaxLength == 500
AddressMinLength == 1
AddressMaxLength == 255
ApiKeyMinLength == 20
ApiKeyMaxLength == 1000
DefaultMaxProcessedMessages == 1000
DefaultProcessedMessageTtl == 60
DefaultCleanupInterval == 300
DefaultRateLimitMaxRequests == 30
DefaultRateLimitWindow == 60
CleanupIntervalMin == 10
CountMin == 1
DisplaySeedChars == 8

DefaultDescription == <<"A", "n", " ", "A", "S", "I", "1", " ", "c", "o", "m", "p", "a", "t", "i", "b", "l", "e", " ", "a", "g", "e", "n", "t", " ", "b", "u", "i", "l", "t", " ", "u", "s", "i", "n", "g", " ", "'", "c", "r", "e", "a", "t", "e", "-", "a", "g", "e", "n", "t", "v", "e", "r", "s", "e", "-", "a", "g", "e", "n", "t", "'", ".">>
DefaultHostingAddress == <<"l", "o", "c", "a", "l", "h", "o", "s", "t">>
DefaultEnv == <<"d", "e", "v", "e", "l", "o", "p", "m", "e", "n", "t">>

Fields == <<"agent_name", "agent_seed_phrase", "agent_port", "agent_description",
            "hosting_address", "hosting_port", "env", "agentverse_api_key",
            "max_processed_messages", "processed_message_ttl_minutes",
            "cleanup_interval_seconds", "rate_limit_max_requests",
            "rate_limit_window_minutes">>

FieldSet == Range(Fields)

IntFields == {"agent_port", "hosting_port", "max_processed_messages",
              "processed_message_ttl_minutes", "cleanup_interval_seconds",
              "rate_limit_max_requests", "rate_limit_window_minutes"}

\* the 32 bytes the operating system's random source returns to one call:
\* any value is possible, the model draws from these
RandomBytes ==
    { Repeat(<<63, 169, 12, 225>>, SeedBytes \div 4),
      Repeat(<<180, 125, 42, 92>>, SeedBytes \div 4) }

\* variant: the bytes are written with upper-case hexadecimal digits
token_hex_Upper(bytes) ==
    [i \in 1..(2 * Len(bytes)) |->
        LET b == bytes[(i + 1) \div 2]
            d == IF i % 2 = 1 THEN b \div 16 ELSE b % 16
        IN <<"0", "1", "2", "3", "4", "5", "6", "7", "8", "9", "A", "B", "C", "D", "E", "F">>[d + 1]]

\* secrets.token_hex: each byte becomes two lowercase hexadecimal digits
token_hex(bytes) ==
    [i \in 1..(2 * Len(bytes)) |->
        LET b == bytes[(i + 1) \div 2]
            d == IF i % 2 = 1 THEN b \div 16 ELSE b % 16
        IN <<"0", "1", "2", "3", "4", "5", "6", "7", "8", "9", "a", "b", "c", "d", "e", "f">>[d + 1]]

\* secrets.token_hex(32): 64 lowercase hexadecimal characters.  The random
\* source is a choice among these results.
TokenHex == { token_hex(bytes) : bytes \in RandomBytes }

\* default / default_factory of each field; gen is the token_hex result
FieldDefault(f, gen) ==
    CASE f = "agent_name" -> None
      [] f = "agent_seed_phrase" -> gen
      [] f = "agent_port" -> DefaultAgentPort
      [] f = "agent_description" -> DefaultDescription
      [] f = "hosting_address" -> DefaultHostingAddress
      [] f = "hosting_port" -> DefaultHostingPort
      [] f = "env" -> DefaultEnv
      [] f = "agentverse_api_key" -> None
      [] f = "max_processed_messages" -> DefaultMaxProcessedMessages
      [] f = "processed_message_ttl_minutes" -> DefaultProcessedMessageTtl
      [] f = "cleanup_interval_seconds" -> DefaultCleanupInterval
      [] f = "rate_limit_max_requests" -> DefaultRateLimitMaxRequests
      [] f = "rate_limit_window_minutes" -> DefaultRateLimitWindow

\* pattern=r"^[a-zA-Z0-9\s]+$"
NamePattern(s) == Len(s) >= 1 /\ AllIn(s, Alnum \cup Whitespace)

\* pattern=r"^[a-zA-Z0-9]+$"
SeedPattern(s) == Len(s) >= 1 /\ AllIn(s, Alnum)

\* eyJ[A-Za-z0-9\-_]+
JwtPart(p) ==
    /\ Len(p) >= 4
    /\ SubSeq(p, 1, 3) = <<"e", "y", "J">>
    /\ AllIn(SubSeq(p, 4, Len(p)), Alnum \cup {"-", "_"})

\* pattern=r"^eyJ[A-Za-z0-9\-_]+\.eyJ[A-Za-z0-9\-_]+\.[A-Za-z0-9\-_=]*$"
ApiKeyPattern(s) ==
    LET parts == SplitOn(s, ".") IN
    /\ Len(parts) = 3
    /\ JwtPart(parts[1])
    /\ JwtPart(parts[2])
    /\ AllIn(parts[3], Alnum \cup {"-", "_", "="})

\* variant: the numeric limits are exclusive (gt / lt instead of ge / le)
FieldValid_Exclusive(f, v) ==
    CASE f \in {"agent_port", "hosting_port"} -> v > PortMin /\ v < PortMax
      [] f = "cleanup_interval_seconds" -> v > CleanupIntervalMin
      [] f \in {"max_processed_messages", "processed_message_ttl_minutes",
                "rate_limit_max_requests", "rate_limit_window_minutes"} ->
            v > CountMin
      [] OTHER -> TRUE

\* the constraints of one Field(...) declaration
FieldValid(f, v) ==
    CASE f = "agent_name" ->
            v = None \/ (/\ Len(v) >= NameMinLength
                         /\ Len(v) <= NameMaxLength
                         /\ NamePattern(v))
      [] f = "agent_seed_phrase" ->
            Len(v) >= SeedMinLength /\ Len(v) <= SeedMaxLength /\ SeedPattern(v)
      [] f \in {"agent_port", "hosting_port"} -> v >= PortMin /\ v <= PortMax
      [] f = "agent_description" ->
            Len(v) >= DescriptionMinLength /\ Len(v) <= DescriptionMaxLength
      [] f = "hosting_address" ->
            Len(v) >= AddressMinLength /\ Len(v) <= AddressMaxLength
      [] f = "env" -> TRUE
      [] f = "agentverse_api_key" ->
            v = None \/ (/\ Len(v) >= ApiKeyMinLength
                         /\ Len(v) <= ApiKeyMaxLength
                         /\ ApiKeyPattern(v))
      [] f = "cleanup_interval_seconds" -> v >= CleanupIntervalMin
      [] f \in {"max_processed_messages", "processed_message_ttl_minutes",
                "rate_limit_max_requests", "rate_limit_window_minutes"} ->
            v >= CountMin

----------------------------------------------------------------------------
(* Bounds and the values the model draws for each field *)

\* at most this many field values are supplied to one configuration, as
\* keyword arguments of the constructor or by later assignments
MaxEdits == 2

LongName == Repeat(<<"A">>, NameMaxLength + 1)

\* values a caller passes (or later assigns) for field f
Values(f) ==
    CASE f = "agent_name" ->
            { <<"M", "y", " ", "A", "g", "e", "n", "t">>, <<"A", "_", "b">>, <<"A", "\t", "b">>, <<>>, LongName }
      [] f = "agent_seed_phrase" ->
            { <<"Q", "7", "x">>, <<"s", "e", "n", "s", "i", "t", "i", "v", "e", "S", "e", "e", "d", "9", "9">>, <<"b", "a", "d", " ", "s", "e", "e", "d">> }
      [] f = "agent_port" -> { PortMin - 1, PortMin, DefaultHostingPort, PortMax, PortMax + 1 }
      [] f = "hosting_port" -> { PortMin - 1, PortMin, DefaultAgentPort, PortMax, PortMax + 1 }
      [] f = "agent_description" -> { <<>>, <<"A", " ", "b", "o", "t">> }
      [] f = "hosting_address" -> { <<>>, <<"e", "x", "a", "m", "p", "l", "e", ".", "c", "o", "m">> }
      [] f = "env" -> { <<"p", "r", "o", "d", "u", "c", "t", "i", "o", "n">> }
      [] f = "agentverse_api_key" ->
            { <<"e", "y", "J", "h", "b", "G", "c", "i", ".", "e", "y", "J", "z", "d", "W", "I", "i", ".", "s", "i", "g", "n", "a", "t", "u", "r", "e", "v", "a", "l", "u", "e", "1", "2", "3">>, <<"e", "y", "J", "h", "b", "G", "c", "i", ".", "s", "i", "g", "n", "a", "t", "u", "r", "e", "v", "a", "l", "u", "e", "1", "2", "3", "x", "x">> }
      [] f = "cleanup_interval_seconds" -> { CleanupIntervalMin - 1, CleanupIntervalMin }
      [] f \in {"max_processed_messages", "processed_message_ttl_minutes",
                "rate_limit_max_requests", "rate_limit_window_minutes"} ->
            { CountMin - 1, CountMin }

\* the keyword arguments kw and f=v
WithArg(kw, f, v) == [g \in DOMAIN kw \cup {f} |-> IF g = f THEN v ELSE kw[g]]

RECURSIVE KwargsUpTo(_)
\* every keyword-argument mapping that names at most n fields
KwargsUpTo(n) ==
    IF n = 0 THEN { <<>> }
    ELSE LET prev == KwargsUpTo(n - 1) IN
         prev \cup UNION { UNION { { WithArg(kw, f, v) : v \in Values(f) }
                                   : f \in FieldSet \ DOMAIN kw }
                           : kw \in prev }

----------------------------------------------------------------------------
(* AgentContext construction *)

\* the value of config while there is no instance
NoConfig == [f \in FieldSet |-> IF f \in IntFields THEN 0 ELSE None]

\* field values after defaults are filled in
FieldValues(kw, gen) ==
    [f \in FieldSet |-> IF f \in DOMAIN kw THEN kw[f] ELSE FieldDefault(f, gen)]

\* fields of the call whose value violates the field's constraints
FieldErrors(kw) == { f \in DOMAIN kw : ~FieldValid(f, kw[f]) }

\* the condition under which check_ports_different raises AgentContextError
check_ports_different(c) == c.agent_port = c.hosting_port

\* variant: the model validator raises ValueError, which pydantic reports as
\* a ValidationError
AgentContext_ValueError(kw, gen) ==
    LET c == FieldValues(kw, gen) IN
    IF FieldErrors(kw) # {}
    THEN [outcome |-> "ValidationError", errfields |-> FieldErrors(kw), config |-> NoConfig]
    ELSE IF check_ports_different(c)
    THEN [outcome |-> "ValidationError", errfields |-> {}, config |-> NoConfig]
    ELSE [outcome |-> "ok", errfields |-> {}, config |-> c]

\* variant: the ports are compared before the fields are validated
AgentContext_PortsFirst(kw, gen) ==
    LET c == FieldValues(kw, gen) IN
    IF check_ports_different(c)
    THEN [outcome |-> "AgentContextError", errfields |-> {}, config |-> NoConfig]
    ELSE IF FieldErrors(kw) # {}
    THEN [outcome |-> "ValidationError", errfields |-> FieldErrors(kw), config |-> NoConfig]
    ELSE [outcome |-> "ok", errfields |-> {}, config |-> c]

\* AgentContext(**kw): field validation first; the mode="after" model
\* validator runs only when no field failed
AgentContext(kw, gen) ==
    LET c == FieldValues(kw, gen) IN
    IF FieldErrors(kw) # {}
    THEN [outcome |-> "ValidationError", errfields |-> FieldErrors(kw), config |-> NoConfig]
    ELSE IF check_ports_different(c)
    THEN [outcome |-> "AgentContextError", errfields |-> {}, config |-> NoConfig]
    ELSE [outcome |-> "ok", errfields |-> {}, config |-> c]

----------------------------------------------------------------------------
(* Derived properties, model_dump and __repr__ *)

\* Path.cwd()
Cwd == <<"/", "w", "o", "r", "k">>

\* pathlib: base / seg, as the string of the resulting path
PathJoin(base, seg) ==
    IF seg = <<>> THEN base
    ELSE IF seg[1] = "/" THEN seg
    ELSE base \o <<"/">> \o seg

\* variant: the seed phrase is not cut to its first characters
display_name_WholeSeed(c) ==
    IF Truthy(c.agent_name) THEN c.agent_name
    ELSE <<"A", "g", "e", "n", "t", " ">> \o c.agent_seed_phrase

display_name(c) ==
    IF Truthy(c.agent_name) THEN c.agent_name
    ELSE <<"A", "g", "e", "n", "t", " ">> \o Prefix(c.agent_seed_phrase, DisplaySeedChars)

safe_name(c) == StrReplace(StrReplace(StrLower(display_name(c)), " ", "-"), "_", "-")

project_path(c) == PathJoin(Cwd, safe_name(c))

agent_route(c) == <<"/">> \o safe_name(c)

hosting_endpoint(c) ==
    <<"h", "t", "t", "p", ":", "/", "/">> \o c.hosting_address \o <<":">> \o IntToStr(c.hosting_port)

DerivedKeys == <<"display_name", "safe_name", "project_path", "agent_route",
                 "hosting_endpoint">>

\* keys of model_dump(), in order: the declared fields, then the update
DumpKeys == Fields \o DerivedKeys

\* variant: the dump leaves out the fields whose value is None
\* (exclude_none=True)
model_dump_ExcludeNone(c) ==
    [k \in { j \in Range(DumpKeys) : j \notin FieldSet \/ j \in IntFields \/ c[j] # None } |->
        CASE k \in FieldSet -> c[k]
          [] k = "display_name" -> display_name(c)
          [] k = "safe_name" -> safe_name(c)
          [] k = "project_path" -> project_path(c)
          [] k = "agent_route" -> agent_route(c)
          [] k = "hosting_endpoint" -> hosting_endpoint(c)]

\* variant: the derived entries are those computed when the instance was
\* constructed: a later agent_name is not seen
model_dump_Cached(c) ==
    LET c0 == [c EXCEPT !.agent_name =
                  IF "agent_name" \in DOMAIN kwargs THEN kwargs.agent_name ELSE None]
    IN [k \in Range(DumpKeys) |->
        CASE k \in FieldSet -> c[k]
          [] k = "display_name" -> display_name(c0)
          [] k = "safe_name" -> safe_name(c0)
          [] k = "project_path" -> project_path(c0)
          [] k = "agent_route" -> agent_route(c0)
          [] k = "hosting_endpoint" -> hosting_endpoint(c0)]

model_dump(c) ==
    [k \in Range(DumpKeys) |->
        CASE k \in FieldSet -> c[k]
          [] k = "display_name" -> display_name(c)
          [] k = "safe_name" -> safe_name(c)
          [] k = "project_path" -> project_path(c)
          [] k = "agent_route" -> agent_route(c)
          [] k = "hosting_endpoint" -> hosting_endpoint(c)]

\* the characters of each key of the dump
KeyChars ==
    [agent_name |-> <<"a", "g", "e", "n", "t", "_", "n", "a", "m", "e">>,
     agent_seed_phrase |-> <<"a", "g", "e", "n", "t", "_", "s", "e", "e", "d", "_", "p", "h", "r", "a", "s", "e">>,
     agent_port |-> <<"a", "g", "e", "n", "t", "_", "p", "o", "r", "t">>,
     agent_description |-> <<"a", "g", "e", "n", "t", "_", "d", "e", "s", "c", "r", "i", "p", "t", "i", "o", "n">>,
     hosting_address |-> <<"h", "o", "s", "t", "i", "n", "g", "_", "a", "d", "d", "r", "e", "s", "s">>,
     hosting_port |-> <<"h", "o", "s", "t", "i", "n", "g", "_", "p", "o", "r", "t">>,
     env |-> <<"e", "n", "v">>,
     agentverse_api_key |-> <<"a", "g", "e", "n", "t", "v", "e", "r", "s", "e", "_", "a", "p", "i", "_", "k", "e", "y">>,
     max_processed_messages |-> <<"m", "a", "x", "_", "p", "r", "o", "c", "e", "s", "s", "e", "d", "_", "m", "e", "s", "s", "a", "g", "e", "s">>,
     processed_message_ttl_minutes |-> <<"p", "r", "o", "c", "e", "s", "s", "e", "d", "_", "m", "e", "s", "s", "a", "g", "e", "_", "t", "t", "l", "_", "m", "i", "n", "u", "t", "e", "s">>,
     cleanup_interval_seconds |-> <<"c", "l", "e", "a", "n", "u", "p", "_", "i", "n", "t", "e", "r", "v", "a", "l", "_", "s", "e", "c", "o", "n", "d", "s">>,
     rate_limit_max_requests |-> <<"r", "a", "t", "e", "_", "l", "i", "m", "i", "t", "_", "m", "a", "x", "_", "r", "e", "q", "u", "e", "s", "t", "s">>,
     rate_limit_window_minutes |-> <<"r", "a", "t", "e", "_", "l", "i", "m", "i", "t", "_", "w", "i", "n", "d", "o", "w", "_", "m", "i", "n", "u", "t", "e", "s">>,
     display_name |-> <<"d", "i", "s", "p", "l", "a", "y", "_", "n", "a", "m", "e">>,
     safe_name |-> <<"s", "a", "f", "e", "_", "n", "a", "m", "e">>,
     project_path |-> <<"p", "r", "o", "j", "e", "c", "t", "_", "p", "a", "t", "h">>,
     agent_route |-> <<"a", "g", "e", "n", "t", "_", "r", "o", "u", "t", "e">>,
     hosting_endpoint |-> <<"h", "o", "s", "t", "i", "n", "g", "_", "e", "n", "d", "p", "o", "i", "n", "t">>]

\* one character of a str inside repr(), q being the enclosing quote
ReprChar(ch, q) ==
    CASE ch = "\\" -> <<"\\", "\\">>
      [] ch = "\t" -> <<"\\", "t">>
      [] ch = "\n" -> <<"\\", "n">>
      [] ch = q -> <<"\\", q>>
      [] OTHER -> <<ch>>

RECURSIVE ReprBody(_, _)
\* the characters of s between the quotes, computed by halves
ReprBody(s, q) ==
    IF Len(s) = 0 THEN <<>>
    ELSE IF Len(s) = 1 THEN ReprChar(s[1], q)
    ELSE LET h == Len(s) \div 2 IN
         ReprBody(SubSeq(s, 1, h), q) \o ReprBody(SubSeq(s, h + 1, Len(s)), q)

\* repr(s) of a str: double quotes only when s holds ' and no "
ReprStr(s) ==
    LET q == IF "'" \in Range(s) /\ "\"" \notin Range(s) THEN "\"" ELSE "'"
    IN <<q>> \o ReprBody(s, q) \o <<q>>

\* f"{v!r}" of the dump's value under key k
ReprValue(k, v) ==
    IF k \in IntFields THEN IntToStr(v)
    ELSE IF v = None THEN <<"N", "o", "n", "e">>
    ELSE ReprStr(v)

\* keys __repr__ leaves out
ReprExcluded == {"agent_seed_phrase", "agentverse_api_key"}

RECURSIVE ReprFields(_, _)
\* ", ".join(f"{k}={v!r}" ...) over the keys ks of dump d
ReprFields(d, ks) ==
    IF ks = <<>> THEN <<>>
    ELSE LET k == Head(ks)
             rest == ReprFields(d, Tail(ks))
         IN IF k \in ReprExcluded THEN rest
            ELSE KeyChars[k] \o <<"=">> \o ReprValue(k, d[k])
                 \o (IF rest = <<>> THEN <<>> ELSE <<",", " ">> \o rest)

\* AgentContext.__repr__ (and __str__, which returns it)
Repr(c) == <<"A", "g", "e", "n", "t", "C", "o", "n", "t", "e", "x", "t", "(">> \o ReprFields(model_dump(c), DumpKeys) \o <<")">>

----------------------------------------------------------------------------
(* Template renderers (templates.py and the renderers of the test suite) *)

\* Scaffolder.TEMPLATE_MAP, in dict order
TEMPLATE_MAP ==
    << [template |-> <<"t", "e", "m", "p", "l", "a", "t", "e", ".", "a", "g", "e", "n", "t", ".", "p", "y", ".", "j", "2">>, output |-> <<"a", "g", "e", "n", "t", ".", "p", "y">>],
       [template |-> <<"t", "e", "m", "p", "l", "a", "t", "e", ".", "m", "a", "i", "n", ".", "p", "y", ".", "j", "2">>, output |-> <<"m", "a", "i", "n", ".", "p", "y">>],
       [template |-> <<"t", "e", "m", "p", "l", "a", "t", "e", ".", "D", "o", "c", "k", "e", "r", "f", "i", "l", "e", ".", "j", "2">>, output |-> <<"D", "o", "c", "k", "e", "r", "f", "i", "l", "e">>],
       [template |-> <<"t", "e", "m", "p", "l", "a", "t", "e", ".", "d", "o", "c", "k", "e", "r", "-", "c", "o", "m", "p", "o", "s", "e", ".", "y", "m", "l", ".", "j", "2">>, output |-> <<"d", "o", "c", "k", "e", "r", "-", "c", "o", "m", "p", "o", "s", "e", ".", "y", "m", "l">>],
       [template |-> <<"t", "e", "m", "p", "l", "a", "t", "e", ".", "p", "y", "p", "r", "o", "j", "e", "c", "t", ".", "t", "o", "m", "l", ".", "j", "2">>, output |-> <<"p", "y", "p", "r", "o", "j", "e", "c", "t", ".", "t", "o", "m", "l">>],
       [template |-> <<"t", "e", "m", "p", "l", "a", "t", "e", ".", "r", "e", "q", "u", "i", "r", "e", "m", "e", "n", "t", "s", ".", "t", "x", "t", ".", "j", "2">>, output |-> <<"r", "e", "q", "u", "i", "r", "e", "m", "e", "n", "t", "s", ".", "t", "x", "t">>],
       [template |-> <<"t", "e", "m", "p", "l", "a", "t", "e", ".", "e", "n", "v", ".", "j", "2">>, output |-> <<".", "e", "n", "v">>],
       [template |-> <<"t", "e", "m", "p", "l", "a", "t", "e", ".", "R", "E", "A", "D", "M", "E", ".", "m", "d", ".", "j", "2">>, output |-> <<"R", "E", "A", "D", "M", "E", ".", "m", "d">>] >>

MapTemplates == [i \in 1..Len(TEMPLATE_MAP) |-> TEMPLATE_MAP[i].template]
MapOutputs == [i \in 1..Len(TEMPLATE_MAP) |-> TEMPLATE_MAP[i].output]

\* the output name the test suite derives from a template identifier
StripName(t) == ReplaceAll(ReplaceAll(t, <<"t", "e", "m", "p", "l", "a", "t", "e", ".">>, <<>>), <<".", "j", "2">>, <<>>)

\* a renderer: what list_templates() returns, the identifiers on which
\* render() raises, and the exception it raises there
DummyRenderer(templates) ==
    [lists |-> templates, fails |-> {}, error |-> "none"]

DummyDefaultTemplates ==
    << <<"t", "e", "m", "p", "l", "a", "t", "e", ".", "a", "g", "e", "n", "t", ".", "p", "y", ".", "j", "2">>, <<"t", "e", "m", "p", "l", "a", "t", "e", ".", "c", "o", "n", "f", "i", "g", ".", "y", "a", "m", "l", ".", "j", "2">>, <<"t", "e", "m", "p", "l", "a", "t", "e", ".", "R", "E", "A", "D", "M", "E", ".", "m", "d", ".", "j", "2">> >>

FailingRenderer ==
    [lists |-> << <<"t", "e", "m", "p", "l", "a", "t", "e", ".", "f", "a", "i", "l", ".", "j", "2">> >>,
     fails |-> Range(MapTemplates) \cup { <<"t", "e", "m", "p", "l", "a", "t", "e", ".", "f", "a", "i", "l", ".", "j", "2">> },
     error |-> "RuntimeError"]

\* TemplateRenderer over a template storage holding the identifiers stored:
\* render() wraps every failure, a missing template included, in TemplateError
TemplateRenderer(stored) ==
    [lists |-> stored,
     fails |-> Range(MapTemplates) \ Range(stored),
     error |-> "TemplateError"]

\* a template storage from which the k-th catalog template is missing
StorageWithout(k) ==
    SubSeq(MapTemplates, 1, k - 1) \o SubSeq(MapTemplates, k + 1, Len(MapTemplates))

Renderers ==
    { DummyRenderer(DummyDefaultTemplates), DummyRenderer(<<>>), FailingRenderer,
      TemplateRenderer(MapTemplates) }
    \cup { TemplateRenderer(StorageWithout(k)) : k \in {1, 3} }

\* the text render() returns: determined by the template and the context
Rendered(t, ctx) == [text |-> t, context |-> ctx]

\* a context no configuration produces; marks text that no render produced
BlankContext == [k \in Range(DumpKeys) |-> IF k \in IntFields THEN 0 ELSE <<>>]

UserText(s) == [text |-> s, context |-> BlankContext]

----------------------------------------------------------------------------
(* The filesystem *)

NoPath == <<>>

Dir == [type |-> "dir", content |-> UserText(<<>>)]
File(content) == [type |-> "file", content |-> content]

exists(f, p) == p \in DOMAIN f
is_dir(f, p) == exists(f, p) /\ f[p].type = "dir"

\* names of the entries of directory p
iterdir(f, p) ==
    { q \in DOMAIN f : Len(q) > Len(p) + 1 /\ SubSeq(q, 1, Len(p) + 1) = p \o <<"/">> }

\* the filesystem with path p bound to node n
WithNode(f, p, n) == (p :> n) @@ f

\* what may already be at project path p when create_project is called
InitialFilesystems(p) ==
    { <<>>,
      (p :> Dir),
      (p :> Dir)
        @@ (PathJoin(p, <<"c", "u", "s", "t", "o", "m", ".", "t", "x", "t">>) :> File(UserText(<<"c", "u", "s", "t", "o", "m", " ", "c", "o", "n", "t", "e", "n", "t">>)))
        @@ (PathJoin(p, <<"R", "E", "A", "D", "M", "E", ".", "m", "d">>) :> File(UserText(<<"o", "l", "d", " ", "c", "o", "n", "t", "e", "n", "t">>))),
      (p :> File(UserText(<<"n", "o", "t", " ", "a", " ", "d", "i", "r", "e", "c", "t", "o", "r", "y">>))) }

NoFault == [op |-> "none", name |-> <<>>]

\* operations the environment may refuse (permissions, full disk)
IoFaults ==
    { NoFault, [op |-> "mkdir", name |-> <<>>],
      [op |-> "write", name |-> <<"m", "a", "i", "n", ".", "p", "y">>] }

----------------------------------------------------------------------------
(* Scaffolder.create_project, one action per step *)

\* variant: the safety check asks is_dir() instead of exists()
Conflict_DirOnly(f, p, ow) == is_dir(f, p) /\ ~ow

\* variant: the safety check does not look at overwrite
Conflict_IgnoresOverwrite(f, p, ow) == exists(f, p)

\* line 46: the condition of the safety check
Conflict(f, p, ow) == exists(f, p) /\ ~ow

\* lines 49-50: the message of the ScaffoldError
ConflictMessage(p) ==
    <<"D", "i", "r", "e", "c", "t", "o", "r", "y", " ", "'">> \o p \o <<"'", " ", "a", "l", "r", "e", "a", "d", "y", " ", "e", "x", "i", "s", "t", "s", ".", " ">>
    \o <<"U", "s", "e", " ", "-", "-", "o", "v", "e", "r", "w", "r", "i", "t", "e", " ", "t", "o", " ", "r", "e", "p", "l", "a", "c", "e", " ", "i", "t", ".">>

\* lines 46-51: the existence check
Check ==
    /\ pc = "start"
    /\ IF Conflict(fs, project_path(config), overwrite)
       THEN /\ raised' = "ScaffoldError"
            /\ message' = ConflictMessage(project_path(config))
            /\ pc' = "failed"
       ELSE /\ pc' = "mkdir"
            /\ UNCHANGED <<raised, message>>
    /\ UNCHANGED <<configVars, rendererVars, cliVars, fs, renderer, overwrite, ioFault, idx, context_dict,
                   render_calls, returned, fs0>>

\* variant: a failed mkdir is reported with the error of the safety check
MkdirError_AsConflict(f, p, exist_ok, fault) ==
    IF fault.op = "mkdir" THEN "ScaffoldError"
    ELSE IF exists(f, p) /\ ~(exist_ok /\ is_dir(f, p)) THEN "ScaffoldError"
    ELSE "none"

\* project_path.mkdir(parents=True, exist_ok=overwrite): the exception it
\* raises on filesystem f, or "none"
MkdirError(f, p, exist_ok, fault) ==
    IF fault.op = "mkdir" THEN "OSError"
    ELSE IF exists(f, p) /\ ~(exist_ok /\ is_dir(f, p)) THEN "FileExistsError"
    ELSE "none"

\* variant: the directory is emptied before it is reused
MkdirResult_Fresh(f, p) ==
    WithNode([q \in DOMAIN f \ iterdir(f, p) |-> f[q]], p, Dir)

\* variant: mkdir creates nothing
MkdirResult_Nothing(f, p) == f

\* the filesystem after a successful mkdir(parents=True, exist_ok=...): an
\* existing directory keeps its entries
MkdirResult(f, p) == IF exists(f, p) THEN f ELSE WithNode(f, p, Dir)

\* lines 57-61: create the directory, then take the dump
Mkdir ==
    /\ pc = "mkdir"
    /\ LET p == project_path(config)
           err == MkdirError(fs, p, overwrite, ioFault)
       IN IF err # "none"
          THEN /\ raised' = err
               /\ pc' = "failed"
               /\ UNCHANGED <<fs, context_dict, idx>>
          ELSE /\ fs' = MkdirResult(fs, p)
               /\ context_dict' = model_dump(config)
               /\ idx' = 1
               /\ pc' = "write"
               /\ UNCHANGED raised
    /\ UNCHANGED <<configVars, rendererVars, cliVars, renderer, overwrite, ioFault, render_calls, message,
                   returned, fs0>>

\* output_path.write_text(content): the exception it raises, or "none"
WriteError(f, path, name, fault) ==
    IF fault.op = "write" /\ fault.name = name THEN "OSError"
    ELSE IF is_dir(f, path) THEN "IsADirectoryError"
    ELSE "none"

\* variant: the loop follows renderer.list_templates() and strips the names
LoopItems_Listed(r) ==
    [i \in 1..Len(r.lists) |-> [template |-> r.lists[i], output |-> StripName(r.lists[i])]]

\* the items the write loop of create_project iterates over
LoopItems(r) == TEMPLATE_MAP

\* variant: a failed render removes the project directory and its entries
OnRenderError_Cleanup(f, p) == [q \in (DOMAIN f \ iterdir(f, p)) \ {p} |-> f[q]]

\* lines 62-67: the loop has no try/except/finally, so an exception of
\* renderer.render leaves create_project with the filesystem as it is
OnRenderError(f, p) == f

\* lines 62-67: one iteration of the loop: render, then write
RenderAndWrite ==
    /\ pc = "write"
    /\ idx <= Len(LoopItems(renderer))
    /\ LET item == LoopItems(renderer)[idx]
           output_path == PathJoin(project_path(config), item.output)
           werr == WriteError(fs, output_path, item.output, ioFault)
       IN /\ render_calls' = Append(render_calls, item.template)
          /\ IF item.template \in renderer.fails
             THEN /\ raised' = renderer.error
                  /\ pc' = "failed"
                  /\ fs' = OnRenderError(fs, project_path(config))
                  /\ UNCHANGED idx
             ELSE IF werr # "none"
             THEN /\ raised' = werr
                  /\ pc' = "failed"
                  /\ UNCHANGED <<fs, idx>>
             ELSE /\ fs' = WithNode(fs, output_path,
                                    File(Rendered(item.template, context_dict)))
                  /\ idx' = idx + 1
                  /\ UNCHANGED <<raised, pc>>
    /\ UNCHANGED <<configVars, rendererVars, cliVars, renderer, overwrite, ioFault, context_dict, message,
                   returned, fs0>>

\* line 72: return project_path
Return ==
    /\ pc = "write"
    /\ idx > Len(LoopItems(renderer))
    /\ returned' = project_path(config)
    /\ pc' = "done"
    /\ UNCHANGED <<configVars, rendererVars, cliVars, fs, renderer, overwrite, ioFault, idx, context_dict,
                   render_calls, raised, message, fs0>>

----------------------------------------------------------------------------
(* Constructing and mutating a configuration *)

\* AgentContext(**kw)
Construct ==
    /\ outcome = "none"
    /\ \E kw \in KwargsUpTo(MaxEdits) : \E gen \in TokenHex :
          LET r == AgentContext(kw, gen) IN
          /\ kwargs' = kw
          /\ config' = r.config
          /\ outcome' = r.outcome
          /\ errfields' = r.errfields
    /\ UNCHANGED <<assigns, assigned, setattr_raised, scaffoldVars, rendererVars, cliVars>>

\* values an assignment may store: no validation runs, so any value goes
Assignable(f) ==
    IF f \in {"agent_name", "agentverse_api_key"} THEN Values(f) \cup {None}
    ELSE Values(f)

\* the record of an assignment: an int value and a str value are kept apart
Assignment(f, v) ==
    [field |-> f,
     int |-> IF f \in IntFields THEN v ELSE 0,
     str |-> IF f \in IntFields THEN <<>> ELSE v]

NoAssignment == [field |-> "none", int |-> 0, str |-> <<>>]

\* variant: assignments are validated like constructor arguments
\* (validate_assignment=True), the model validator included
setattr_Validated(c, f, v) ==
    LET c2 == [c EXCEPT ![f] = v] IN
    IF ~FieldValid(f, v) THEN [raised |-> "ValidationError", config |-> c]
    ELSE IF check_ports_different(c2) THEN [raised |-> "AgentContextError", config |-> c]
    ELSE [raised |-> "none", config |-> c2]

\* config.f = v: BaseModel.__setattr__ with the default model_config
\* (no validate_assignment, no frozen field) stores the value as given
setattr(c, f, v) == [raised |-> "none", config |-> [c EXCEPT ![f] = v]]

\* config.f = v
SetField ==
    /\ outcome = "ok"
    /\ Cardinality(DOMAIN kwargs) + assigns < MaxEdits
    /\ \E f \in FieldSet : \E v \in Assignable(f) :
          LET r == setattr(config, f, v) IN
          /\ config' = r.config
          /\ setattr_raised' = r.raised
          /\ assigned' = Assignment(f, v)
    /\ assigns' = assigns + 1
    /\ UNCHANGED <<kwargs, outcome, errfields, scaffoldVars, rendererVars, cliVars>>

----------------------------------------------------------------------------
(* TemplateRenderer over the package's templates directory (templates.py) *)

MakefileTemplate == <<"t", "e", "m", "p", "l", "a", "t", "e", ".", "M", "a", "k", "e", "f", "i", "l", "e", ".", "j", "2">>
InjectedTemplate == <<"t", "e", "m", "p", "l", "a", "t", "e", ".", "i", "n", "j", "e", "c", "t", "e", "d", ".", "j", "2">>
MissingTemplate == <<"m", "i", "s", "s", "i", "n", "g", "-", "t", "e", "m", "p", "l", "a", "t", "e", ".", "j", "2">>
EnvDotTemplate == <<"t", "e", "m", "p", "l", "a", "t", "e", ".", ".", "e", "n", "v", ".", "j", "2">>
TestPyTemplate == <<"t", "e", "m", "p", "l", "a", "t", "e", ".", "t", "e", "s", "t", ".", "p", "y", ".", "j", "2">>

\* the templates directory the test suite expects: list_templates() is to
\* contain these
ExpectedByTests ==
    (Range(MapTemplates) \ { MapTemplates[6], MapTemplates[7] })
    \cup { EnvDotTemplate, MakefileTemplate, TestPyTemplate }

\* what the templates directory may hold when the renderer is created
InitialStorages == { Range(MapTemplates), ExpectedByTests }

\* files that are added to or removed from the templates directory while
\* the renderer lives
EditableTemplates == { MapTemplates[1], MakefileTemplate, InjectedTemplate }

\* at most this many files are added to or removed from the directory
MaxStorageEdits == 1

\* identifiers passed to render()
RenderNames == { MapTemplates[1], MakefileTemplate, MissingTemplate, InjectedTemplate, <<>> }

\* contexts passed to render(): the dump of a configuration, or one with
\* blank values
RenderContexts ==
    { BlankContext }
    \cup { model_dump(AgentContext(kw, gen).config) :
              kw \in { <<>>, [agent_name |-> <<"T", "e", "s", "t">>] }, gen \in TokenHex }

\* what the engine raises while rendering a template it has loaded
EngineFaults == { "none", "UndefinedError" }

NoText == Rendered(<<>>, BlankContext)

\* variant: the engine's exception leaves render() as it is
render_Unwrapped(stored, template_name, context, fault) ==
    LET cause == IF template_name \notin stored THEN "TemplateNotFound" ELSE fault IN
    IF cause = "none"
    THEN [raised |-> "none", cause |-> "none", message |-> <<>>,
          text |-> Rendered(template_name, context)]
    ELSE [raised |-> cause, cause |-> "none", message |-> template_name, text |-> NoText]

\* lines 58-65: env.get_template raises TemplateNotFound for an identifier
\* the loader does not find, template.render may raise; every Exception is
\* re-raised as TemplateError from err
render(stored, template_name, context, fault) ==
    LET cause == IF template_name \notin stored THEN "TemplateNotFound" ELSE fault IN
    IF cause = "none"
    THEN [raised |-> "none", cause |-> "none", message |-> <<>>,
          text |-> Rendered(template_name, context)]
    ELSE [raised |-> "TemplateError", cause |-> cause,
          message |-> <<"E", "r", "r", "o", "r", " ", "r", "e", "n", "d", "e", "r", "i", "n", "g", " ", "t", "e", "m", "p", "l", "a", "t", "e", " ", "'">> \o template_name \o <<"'">>,
          text |-> NoText]

\* variant: the catalog is declared once and for all
list_templates_Fixed(stored) == Range(MapTemplates)

\* lines 67-71: env.list_templates() asks the loader, which walks the
\* templates directory at every call (the identifiers as a set: their order
\* is left out)
list_templates(stored) == stored

NoListing == [called |-> FALSE, result |-> {}]
NoRender ==
    [called |-> FALSE, template_name |-> <<>>, registered |-> FALSE, raised |-> "none",
     cause |-> "none", message |-> <<>>, text |-> NoText]

\* a file appears in the templates directory
AddTemplate ==
    /\ storage_edits < MaxStorageEdits
    /\ \E t \in EditableTemplates \ storage : storage' = storage \cup {t}
    /\ storage_edits' = storage_edits + 1
    /\ UNCHANGED <<configVars, scaffoldVars, cliVars, listing, rendered>>

\* a file disappears from the templates directory
RemoveTemplate ==
    /\ storage_edits < MaxStorageEdits
    /\ \E t \in EditableTemplates \cap storage : storage' = storage \ {t}
    /\ storage_edits' = storage_edits + 1
    /\ UNCHANGED <<configVars, scaffoldVars, cliVars, listing, rendered>>

\* renderer.render(template_name, context)
RenderCall ==
    /\ \E template_name \in RenderNames : \E context \in RenderContexts :
       \E fault \in EngineFaults :
          LET r == render(storage, template_name, context, fault) IN
          rendered' = [called |-> TRUE, template_name |-> template_name,
                       registered |-> template_name \in storage,
                       raised |-> r.raised, cause |-> r.cause,
                       message |-> r.message, text |-> r.text]
    /\ UNCHANGED <<configVars, scaffoldVars, cliVars, storage, storage_edits, listing>>

\* renderer.list_templates()
ListCall ==
    /\ listing' = [called |-> TRUE, result |-> list_templates(storage)]
    /\ UNCHANGED <<configVars, scaffoldVars, cliVars, storage, storage_edits, rendered>>

----------------------------------------------------------------------------
(* The prompts and the collectors of the wizard (prompts.py) *)

\* str.strip(): leading and trailing whitespace removed
Strip(s) ==
    LET keep == { i \in 1..Len(s) : s[i] \notin Whitespace } IN
    IF keep = {} THEN <<>>
    ELSE SubSeq(s, CHOOSE i \in keep : \A j \in keep : i <= j,
                   CHOOSE i \in keep : \A j \in keep : i >= j)

RECURSIVE DigitsValue(_)
\* the number written by decimal digits ds, underscores skipped
DigitsValue(ds) ==
    IF ds = <<>> THEN 0
    ELSE LET last == ds[Len(ds)]
             front == SubSeq(ds, 1, Len(ds) - 1)
         IN IF last = "_" THEN DigitsValue(front)
            ELSE 10 * DigitsValue(front)
                 + ((CHOOSE i \in 1..Len(DigitSeq) : DigitSeq[i] = last) - 1)

\* int(response): surrounding whitespace and a sign are accepted, then
\* decimal digits, single underscores allowed between digits; anything else
\* raises ValueError
ParseInt(response) ==
    LET r == Strip(response)
        signed == r # <<>> /\ r[1] \in {"+", "-"}
        body == IF signed THEN SubSeq(r, 2, Len(r)) ELSE r
        wellformed ==
            /\ body # <<>>
            /\ AllIn(body, Digit \cup {"_"})
            /\ body[1] # "_" /\ body[Len(body)] # "_"
            /\ \A i \in 1..(Len(body) - 1) : ~(body[i] = "_" /\ body[i + 1] = "_")
    IN IF ~wellformed THEN [ok |-> FALSE, value |-> 0]
       ELSE [ok |-> TRUE,
             value |-> IF signed /\ r[1] = "-" THEN 0 - DigitsValue(body)
                       ELSE DigitsValue(body)]

\* Prompt.ask(..., default=default): an empty line gives the default
Ask(default_value, response) == IF response = <<>> THEN default_value ELSE response

\* lines 36-64: with default=None the answer itself ("" for an empty line)
prompt_with_style(default_value, response) ==
    IF default_value # None THEN Ask(default_value, response) ELSE response

\* variant: a line that is not an integer gives the default, asked once
prompt_int_DefaultOnInvalid(default_value, responses) ==
    IF responses = <<>> THEN [ok |-> FALSE, value |-> 0, prompts |-> 0]
    ELSE LET parsed == ParseInt(prompt_with_style(IntToStr(default_value), Head(responses))) IN
         [ok |-> TRUE, value |-> IF parsed.ok THEN parsed.value ELSE default_value,
          prompts |-> 1]

RECURSIVE prompt_int(_, _)
\* lines 67-78: ask until a response parses as an integer.  responses are the
\* lines the user types; prompts counts the questions asked; ok is FALSE when
\* the responses run out before one parses (the prompt is still waiting)
prompt_int(default_value, responses) ==
    IF responses = <<>> THEN [ok |-> FALSE, value |-> 0, prompts |-> 0]
    ELSE LET parsed == ParseInt(prompt_with_style(IntToStr(default_value), Head(responses))) IN
         IF parsed.ok THEN [ok |-> TRUE, value |-> parsed.value, prompts |-> 1]
         ELSE LET rest == prompt_int(default_value, Tail(responses)) IN
              [ok |-> rest.ok, value |-> rest.value, prompts |-> rest.prompts + 1]

RECURSIVE prompt_choice(_, _, _)
\* lines 81-97: ask until the lowercased response is one of the choices
prompt_choice(choices, default_value, responses) ==
    IF responses = <<>> THEN [ok |-> FALSE, value |-> <<>>, prompts |-> 0]
    ELSE LET response == StrLower(Ask(default_value, Head(responses))) IN
         IF response \in { StrLower(c) : c \in choices }
         THEN [ok |-> TRUE, value |-> response, prompts |-> 1]
         ELSE LET rest == prompt_choice(choices, default_value, Tail(responses)) IN
              [ok |-> rest.ok, value |-> rest.value, prompts |-> rest.prompts + 1]

\* config.f = prompt_with_style(question, default=default_value)
AskText(c, f, default_value, response) ==
    setattr(c, f, prompt_with_style(default_value, response)).config

\* config.f = prompt_int(question, default=config.f)
AskInt(c, f, responses) == setattr(c, f, prompt_int(c[f], responses).value).config

RECURSIVE AskInts(_, _, _)
\* the prompt_int questions for fields fs, one after the other; a holds the
\* user's lines for each field
AskInts(c, fs_, a) ==
    IF fs_ = <<>> THEN c
    ELSE AskInts(AskInt(c, Head(fs_), a[Head(fs_)]), Tail(fs_), a)

\* lines 100-137: the four questions of collect_agent_info; a holds the
\* user's lines
collect_agent_info(c, skip, a) ==
    IF skip THEN c
    ELSE LET named == AskText(c, "agent_name", display_name(c), a.name)
             seeded(c1) == AskText(c1, "agent_seed_phrase", c1.agent_seed_phrase, a.seed)
             ported(c2) == AskInt(c2, "agent_port", a.port)
             described(c3) == AskText(c3, "agent_description", c3.agent_description,
                                      a.description)
         IN described(ported(seeded(named)))

\* the fields collect_hosting_info asks for, in order
AdvancedSettings ==
    <<"max_processed_messages", "processed_message_ttl_minutes", "cleanup_interval_seconds",
      "rate_limit_max_requests", "rate_limit_window_minutes">>

\* variant: skip is not looked at
collect_hosting_info_NoSkip(c, skip, a) == AskInts(c, AdvancedSettings, a)

\* lines 140-187: collect_hosting_info asks for the five advanced settings
collect_hosting_info(c, skip, a) == IF skip THEN c ELSE AskInts(c, AdvancedSettings, a)

\* the answer to the environment question
AskEnv(c, responses) ==
    setattr(c, "env", prompt_choice({ DefaultEnv, <<"p", "r", "o", "d", "u", "c", "t", "i", "o", "n">> }, c.env, responses).value).config

\* lines 190-220: the environment, then the API key if the user wants to
\* give one
collect_environment_and_keys(c, skip, a) ==
    IF skip THEN c
    ELSE IF a.add_key THEN AskText(AskEnv(c, a.env), "agentverse_api_key", None, a.key)
    ELSE AskEnv(c, a.env)

RECURSIVE IntPrompts(_, _, _)
\* the number of times the prompt_int questions for fields fs_ are asked
IntPrompts(c, fs_, a) ==
    IF fs_ = <<>> THEN 0
    ELSE prompt_int(c[Head(fs_)], a[Head(fs_)]).prompts + IntPrompts(c, Tail(fs_), a)

\* what one collector call does besides returning: the questions it asks
\* (Prompt.ask and Confirm.ask calls), the success() messages it prints, the
\* fields it assigns, and the fields whose value differs afterwards (c2 is
\* the configuration after the call)
CollectorEffect(collector, c, skip, a, c2) ==
    [ prompts |->
        IF skip THEN 0
        ELSE CASE collector = "collect_agent_info" ->
                    3 + prompt_int(c.agent_port, a.port).prompts
               [] collector = "collect_hosting_info" -> IntPrompts(c, AdvancedSettings, a)
               [] collector = "collect_environment_and_keys" ->
                    prompt_choice({ DefaultEnv, <<"p", "r", "o", "d", "u", "c", "t", "i", "o", "n">> },
                                  c.env, a.env).prompts
                    + 1 + (IF a.add_key THEN 1 ELSE 0),
      successes |-> IF skip THEN 1 ELSE 0,
      fields |->
        IF skip THEN {}
        ELSE CASE collector = "collect_agent_info" ->
                    {"agent_name", "agent_seed_phrase", "agent_port", "agent_description"}
               [] collector = "collect_hosting_info" -> Range(AdvancedSettings)
               [] collector = "collect_environment_and_keys" ->
                    {"env"} \cup (IF a.add_key THEN {"agentverse_api_key"} ELSE {}),
      changed |-> { f \in DOMAIN c : c[f] # c2[f] } ]

\* no direct prompt_int call has been made
NoIntPrompt ==
    [called |-> FALSE, default_value |-> 0, responses |-> <<>>,
     result |-> [ok |-> FALSE, value |-> 0, prompts |-> 0]]

\* variant: the answer to the final question is not looked at
confirm_ready_Ignored(answer) == "none"

\* lines 376-389: "Ready to create your agent?": the exception raised, or
\* "none" when the configuration is returned
confirm_ready(answer) == IF ~answer THEN "UserAbortError" ELSE "none"

----------------------------------------------------------------------------
(* The CLI command main (cli.py) and collect_configuration (prompts.py) *)

Enter == <<>>

\* the lines a user types into collect_agent_info
AgentInfoAnswers ==
    { [name |-> Enter, seed |-> Enter, port |-> <<Enter>>, description |-> Enter],
      [name |-> <<"M", "y", " ", "A", "g", "e", "n", "t">>, seed |-> Enter, port |-> <<Enter>>, description |-> Enter],
      [name |-> <<"M", "y", " ", "A", "g", "e", "n", "t">>, seed |-> <<"Q", "7", "x">>, port |-> <<<<"a", "b", "c">>, <<"8", "0", "8", "0">>>>, description |-> <<"A", " ", "b", "o", "t">>],
      [name |-> <<"A", "_", "b">>, seed |-> Enter, port |-> <<<<"8", "0">>>>, description |-> Enter] }

\* the lines a user types into collect_hosting_info
AdvancedAnswers ==
    { [max_processed_messages |-> <<Enter>>, processed_message_ttl_minutes |-> <<Enter>>,
       cleanup_interval_seconds |-> <<Enter>>, rate_limit_max_requests |-> <<Enter>>,
       rate_limit_window_minutes |-> <<Enter>>],
      [max_processed_messages |-> <<<<"0">>>>, processed_message_ttl_minutes |-> <<Enter>>,
       cleanup_interval_seconds |-> <<<<"f", "i", "v", "e">>, <<" ", "5">>>>,
       rate_limit_max_requests |-> <<Enter>>, rate_limit_window_minutes |-> <<Enter>>] }

\* the answers a user gives to collect_environment_and_keys
EnvironmentAnswers ==
    { [env |-> <<<<"P", "r", "o", "d", "u", "c", "t", "i", "o", "n">>>>, add_key |-> FALSE, key |-> Enter],
      [env |-> <<<<"s", "t", "a", "g", "i", "n", "g">>, Enter>>, add_key |-> TRUE, key |-> <<"a", "b", "c">>] }

Call(collector, skip) == [collector |-> collector, skip |-> skip]

\* lines 367-371: the three collector calls of the standard mode
StandardModeCalls ==
    << Call("collect_hosting_info", TRUE), Call("collect_environment_and_keys", TRUE),
       Call("collect_hosting_info", TRUE) >>

RECURSIVE SetToSeq(_)
\* the elements of a finite set, in some order
SetToSeq(S) ==
    IF S = {} THEN <<>>
    ELSE LET x == CHOOSE y \in S : TRUE IN <<x>> \o SetToSeq(S \ {x})

\* cli.py lines 196-230: the except clause that handles exception exc
except_clause(exc) ==
    CASE exc = "UserAbortError" -> "UserAbortError"
      [] exc = "FileExistsError" -> "FileExistsError"
      [] exc = "KeyboardInterrupt" -> "KeyboardInterrupt"
      [] OTHER -> "Exception"

\* variant: the except clauses print the success message
clause_message_Success(clause) == "Agent Created Successfully!"

\* the outcome message each except clause prints
clause_message(clause) ==
    CASE clause \in {"UserAbortError", "KeyboardInterrupt"} -> "Setup cancelled by user"
      [] clause = "FileExistsError" -> "Error: Project already exists"
      [] clause = "Exception" -> "Failed to create agent"

\* cli.py lines 100-122 and prompts.py lines 304-334: main calls
\* collect_configuration, which constructs AgentContext(); in quick start
\* mode it returns it at once
StartMain ==
    /\ cli_pc = "start"
    /\ \E gen \in TokenHex :
          LET r == AgentContext(<<>>, gen) IN
          /\ kwargs' = <<>>
          /\ config' = r.config
          /\ outcome' = r.outcome
          /\ errfields' = r.errfields
          /\ IF r.outcome # "ok"
             THEN /\ handled' = except_clause(r.outcome)
                  /\ shown' = shown \cup { clause_message(except_clause(r.outcome)) }
                  /\ cli_pc' = "exited"
             ELSE /\ cli_pc' = IF default THEN "create" ELSE "agent_info"
                  /\ UNCHANGED <<handled, shown>>
    /\ UNCHANGED <<assigns, assigned, setattr_raised, scaffoldVars, rendererVars, default,
                   advanced, collector_calls, effects, int_prompt, confirmed, create_calls>>

\* prompts.py lines 337-371: collect_agent_info; in standard mode the three
\* other collectors follow at once, each with skip=True
CollectAgentInfo ==
    /\ cli_pc = "agent_info"
    /\ \E a \in AgentInfoAnswers : \E h \in AdvancedAnswers : \E e \in EnvironmentAnswers :
          LET c1 == collect_agent_info(config, default, a)
              c2 == collect_hosting_info(c1, TRUE, h)
              c3 == collect_environment_and_keys(c2, TRUE, e)
              c4 == collect_hosting_info(c3, TRUE, h)
              first == CollectorEffect("collect_agent_info", config, default, a, c1)
          IN IF advanced
             THEN /\ config' = c1
                  /\ collector_calls' =
                        Append(collector_calls, Call("collect_agent_info", default))
                  /\ effects' = Append(effects, first)
                  /\ cli_pc' = "hosting"
             ELSE /\ config' = c4
                  /\ collector_calls' =
                        Append(collector_calls, Call("collect_agent_info", default))
                        \o StandardModeCalls
                  /\ effects' =
                        Append(effects, first)
                        \o << CollectorEffect("collect_hosting_info", c1, TRUE, h, c2),
                              CollectorEffect("collect_environment_and_keys", c2, TRUE, e, c3),
                              CollectorEffect("collect_hosting_info", c3, TRUE, h, c4) >>
                  /\ cli_pc' = "confirm"
    /\ assigned' = Assignment("agent_description", config'.agent_description)
    /\ assigns' = assigns + 4
    /\ setattr_raised' = "none"
    /\ UNCHANGED <<kwargs, outcome, errfields, scaffoldVars, rendererVars, int_prompt, default, advanced,
                   confirmed, create_calls, handled, shown>>

\* the configuration variables after a collector call that asked n
\* questions of int fields ending with field last
AfterCollector(c2, skip, n, last) ==
    /\ config' = c2
    /\ IF skip
       THEN UNCHANGED <<assigns, assigned>>
       ELSE /\ assigns' = assigns + n
            /\ assigned' = last
    /\ setattr_raised' = "none"
    /\ UNCHANGED <<kwargs, outcome, errfields>>

\* prompts.py lines 341-348: "Configure custom hosting settings?", then
\* collect_hosting_info
ConfigureHosting ==
    /\ cli_pc = "hosting"
    /\ \E configure_hosting \in BOOLEAN : \E a \in AdvancedAnswers :
          LET c2 == collect_hosting_info(config, ~configure_hosting, a) IN
          /\ AfterCollector(c2, ~configure_hosting, 5,
                            Assignment("rate_limit_window_minutes", c2.rate_limit_window_minutes))
          /\ collector_calls' = Append(collector_calls,
                                       Call("collect_hosting_info", ~configure_hosting))
          /\ effects' = Append(effects,
                               CollectorEffect("collect_hosting_info", config, ~configure_hosting, a, c2))
    /\ cli_pc' = "environment"
    /\ UNCHANGED <<scaffoldVars, rendererVars, int_prompt, default, advanced, confirmed, create_calls,
                   handled, shown>>

\* prompts.py lines 350-357: "Configure environment & API keys?", then
\* collect_environment_and_keys
ConfigureEnvironment ==
    /\ cli_pc = "environment"
    /\ \E configure_env \in BOOLEAN : \E a \in EnvironmentAnswers :
          LET c2 == collect_environment_and_keys(config, ~configure_env, a) IN
          /\ AfterCollector(c2, ~configure_env, IF a.add_key THEN 2 ELSE 1,
                            IF a.add_key
                            THEN Assignment("agentverse_api_key", c2.agentverse_api_key)
                            ELSE Assignment("env", c2.env))
          /\ collector_calls' = Append(collector_calls,
                                       Call("collect_environment_and_keys", ~configure_env))
          /\ effects' = Append(effects,
                               CollectorEffect("collect_environment_and_keys", config, ~configure_env, a, c2))
    /\ cli_pc' = "advanced"
    /\ UNCHANGED <<scaffoldVars, rendererVars, int_prompt, default, advanced, confirmed, create_calls,
                   handled, shown>>

\* prompts.py lines 359-366: "Configure advanced settings (rate limits,
\* cleanup)?", then collect_hosting_info once more
ConfigureAdvanced ==
    /\ cli_pc = "advanced"
    /\ \E configure_advanced \in BOOLEAN : \E a \in AdvancedAnswers :
          LET c2 == collect_hosting_info(config, ~configure_advanced, a) IN
          /\ AfterCollector(c2, ~configure_advanced, 5,
                            Assignment("rate_limit_window_minutes", c2.rate_limit_window_minutes))
          /\ collector_calls' = Append(collector_calls,
                                       Call("collect_hosting_info", ~configure_advanced))
          /\ effects' = Append(effects,
                               CollectorEffect("collect_hosting_info", config, ~configure_advanced, a, c2))
    /\ cli_pc' = "confirm"
    /\ UNCHANGED <<scaffoldVars, rendererVars, int_prompt, default, advanced, confirmed, create_calls,
                   handled, shown>>

\* prompts.py lines 374-389 and cli.py lines 196-202: the summary and the
\* final question; a refusal raises UserAbortError, which main handles
ConfirmReady ==
    /\ cli_pc = "confirm"
    /\ \E answer \in BOOLEAN :
          /\ confirmed' = IF answer THEN "yes" ELSE "no"
          /\ IF confirm_ready(answer) = "none"
             THEN /\ cli_pc' = "create"
                  /\ UNCHANGED <<handled, shown>>
             ELSE /\ handled' = except_clause(confirm_ready(answer))
                  /\ shown' = shown \cup { clause_message(except_clause(confirm_ready(answer))) }
                  /\ cli_pc' = "exited"
    /\ UNCHANGED <<configVars, scaffoldVars, rendererVars, int_prompt, default, advanced,
                   collector_calls, effects, create_calls>>

\* Ctrl+C while a question of the wizard is waiting for its answer: the
\* KeyboardInterrupt leaves collect_configuration and main handles it
\* (cli.py lines 216-222)
Interrupt ==
    /\ cli_pc \in {"agent_info", "hosting", "environment", "advanced", "confirm"}
    /\ handled' = except_clause("KeyboardInterrupt")
    /\ shown' = shown \cup { clause_message(except_clause("KeyboardInterrupt")) }
    /\ cli_pc' = "exited"
    /\ UNCHANGED <<configVars, scaffoldVars, rendererVars, int_prompt, default, advanced,
                   collector_calls, effects, confirmed, create_calls>>

\* cli.py lines 139-145: TemplateRenderer(), Scaffolder(renderer), and the
\* call of create_project with the --overwrite option
CreateProject ==
    /\ cli_pc = "create"
    /\ renderer' = TemplateRenderer(SetToSeq(storage))
    /\ create_calls' = create_calls + 1
    /\ pc' = "start"
    /\ fs0' = fs
    /\ cli_pc' = "scaffolding"
    /\ UNCHANGED <<configVars, rendererVars, fs, overwrite, ioFault, idx, context_dict,
                   render_calls, raised, message, returned, default, advanced,
                   collector_calls, effects, int_prompt, confirmed, handled, shown>>

\* cli.py lines 146-230: create_project has returned (the success panel is
\* printed) or raised (the matching except clause runs)
Finish ==
    /\ cli_pc = "scaffolding"
    /\ pc \in {"done", "failed"}
    /\ IF pc = "done"
       THEN /\ shown' = shown \cup {"Agent Created Successfully!"}
            /\ UNCHANGED handled
       ELSE /\ handled' = except_clause(raised)
            /\ shown' = shown \cup { clause_message(except_clause(raised)) }
    /\ cli_pc' = "exited"
    /\ UNCHANGED <<configVars, scaffoldVars, rendererVars, int_prompt, default, advanced,
                   collector_calls, effects, confirmed, create_calls>>

----------------------------------------------------------------------------
(* The prompt functions called directly, as the test suite calls them *)

\* collector calls made on one configuration
MaxCollectorCalls == 2

\* lines typed in answer to one prompt_int call
MaxResponses == 3

\* the default argument of a prompt_int call
IntDefaults == { DefaultAgentPort, DefaultCleanupInterval }

\* one typed line: nothing, words, zero, a negative number, padded digits,
\* digits grouped by an underscore, a decimal fraction, a signed number
IntResponses ==
    { Enter, <<"a", "b", "c">>, <<"0">>, <<"-", "5">>, <<" ", "4", "2", " ">>,
      <<"1", "_", "0">>, <<"1", ".", "5">>, <<"+", "7">> }

IntResponseSequences ==
    UNION { [1..n -> IntResponses] : n \in 1..MaxResponses }

\* collect_agent_info(config, skip), collect_hosting_info(config, skip) or
\* collect_environment_and_keys(config, skip) called on a configuration
CollectorCall ==
    /\ cli_pc = "idle"
    /\ outcome = "ok"
    /\ ~int_prompt.called
    /\ Len(collector_calls) < MaxCollectorCalls
    /\ \E skip \in BOOLEAN :
          \/ \E a \in AgentInfoAnswers :
                LET c2 == collect_agent_info(config, skip, a) IN
                /\ AfterCollector(c2, skip, 4,
                                  Assignment("agent_description", c2.agent_description))
                /\ collector_calls' = Append(collector_calls, Call("collect_agent_info", skip))
                /\ effects' = Append(effects,
                                     CollectorEffect("collect_agent_info", config, skip, a, c2))
          \/ \E a \in AdvancedAnswers :
                LET c2 == collect_hosting_info(config, skip, a) IN
                /\ AfterCollector(c2, skip, 5,
                                  Assignment("rate_limit_window_minutes",
                                             c2.rate_limit_window_minutes))
                /\ collector_calls' = Append(collector_calls, Call("collect_hosting_info", skip))
                /\ effects' = Append(effects,
                                     CollectorEffect("collect_hosting_info", config, skip, a, c2))
          \/ \E a \in EnvironmentAnswers :
                LET c2 == collect_environment_and_keys(config, skip, a) IN
                /\ AfterCollector(c2, skip, IF a.add_key THEN 2 ELSE 1,
                                  IF a.add_key
                                  THEN Assignment("agentverse_api_key", c2.agentverse_api_key)
                                  ELSE Assignment("env", c2.env))
                /\ collector_calls' =
                      Append(collector_calls, Call("collect_environment_and_keys", skip))
                /\ effects' =
                      Append(effects,
                             CollectorEffect("collect_environment_and_keys", config, skip, a, c2))
    /\ UNCHANGED <<scaffoldVars, rendererVars, cli_pc, default, advanced, int_prompt,
                   confirmed, create_calls, handled, shown>>

\* prompt_int(prompt_text, default) called while the user types the lines
\* responses
PromptIntCall ==
    /\ cli_pc = "idle"
    /\ outcome = "ok"
    /\ collector_calls = <<>>
    /\ \E d \in IntDefaults : \E rs \in IntResponseSequences :
          int_prompt' = [called |-> TRUE, default_value |-> d, responses |-> rs,
                         result |-> prompt_int(d, rs)]
    /\ UNCHANGED <<configVars, scaffoldVars, rendererVars, cli_pc, default, advanced,
                   collector_calls, effects, confirmed, create_calls, handled, shown>>

----------------------------------------------------------------------------
(* Specifications *)

CliIdle ==
    /\ cli_pc = "idle"
    /\ default = FALSE
    /\ advanced = FALSE
    /\ collector_calls = <<>>
    /\ effects = <<>>
    /\ int_prompt = NoIntPrompt
    /\ confirmed = "unasked"
    /\ create_calls = 0
    /\ handled = "none"
    /\ shown = {}

RendererIdle ==
    /\ storage = Range(MapTemplates)
    /\ storage_edits = 0
    /\ listing = NoListing
    /\ rendered = NoRender

ConfigIdle ==
    /\ kwargs = <<>>
    /\ config = NoConfig
    /\ outcome = "none"
    /\ errfields = {}
    /\ assigns = 0
    /\ assigned = NoAssignment
    /\ setattr_raised = "none"

ScaffoldIdle ==
    /\ fs = <<>>
    /\ fs0 = <<>>
    /\ renderer = DummyRenderer(<<>>)
    /\ overwrite = FALSE
    /\ ioFault = NoFault
    /\ pc = "idle"
    /\ idx = 0
    /\ context_dict = BlankContext
    /\ render_calls = <<>>
    /\ raised = "none"
    /\ message = <<>>
    /\ returned = NoPath

\* the configuration model alone: nothing constructed yet
InitConfig ==
    /\ ConfigIdle
    /\ ScaffoldIdle
    /\ RendererIdle
    /\ CliIdle

NextConfig == Construct \/ SetField

SpecConfig == InitConfig /\ [][NextConfig]_vars

\* keyword arguments of the configurations handed to the Scaffolder
ScaffoldKwargs ==
    { kw \in KwargsUpTo(1) :
        /\ DOMAIN kw \subseteq {"agent_name", "hosting_address"}
        /\ \A gen \in TokenHex : AgentContext(kw, gen).outcome = "ok" }

\* create_project(config, overwrite) is called on a constructed configuration
InitScaffold ==
    /\ \E kw \in ScaffoldKwargs : \E gen \in TokenHex :
          /\ kwargs = kw
          /\ config = AgentContext(kw, gen).config
    /\ outcome = "ok"
    /\ errfields = {}
    /\ assigns = 0
    /\ assigned = NoAssignment
    /\ setattr_raised = "none"
    /\ fs \in InitialFilesystems(project_path(config))
    /\ fs0 = fs
    /\ renderer \in Renderers
    /\ overwrite \in BOOLEAN
    /\ ioFault \in IoFaults
    /\ pc = "start"
    /\ idx = 0
    /\ context_dict = BlankContext
    /\ render_calls = <<>>
    /\ raised = "none"
    /\ message = <<>>
    /\ returned = NoPath
    /\ RendererIdle
    /\ CliIdle

NextScaffold == Check \/ Mkdir \/ RenderAndWrite \/ Return

SpecScaffold == InitScaffold /\ [][NextScaffold]_vars

\* a TemplateRenderer is created over the templates directory and used
InitRenderer ==
    /\ ConfigIdle
    /\ ScaffoldIdle
    /\ storage \in InitialStorages
    /\ storage_edits = 0
    /\ listing = NoListing
    /\ rendered = NoRender
    /\ CliIdle

NextRenderer == AddTemplate \/ RemoveTemplate \/ RenderCall \/ ListCall

SpecRenderer == InitRenderer /\ [][NextRenderer]_vars

\* what the working directory may hold when the command is run
CliFilesystems ==
    { <<>>,
      (PathJoin(Cwd, <<"m", "y", "-", "a", "g", "e", "n", "t">>) :> Dir)
        @@ (PathJoin(PathJoin(Cwd, <<"m", "y", "-", "a", "g", "e", "n", "t">>), <<"R", "E", "A", "D", "M", "E", ".", "m", "d">>) :> File(UserText(<<"o", "l", "d", " ", "c", "o", "n", "t", "e", "n", "t">>))),
      (PathJoin(Cwd, <<"m", "y", "-", "a", "g", "e", "n", "t">>) :> File(UserText(<<"n", "o", "t", " ", "a", " ", "d", "i", "r", "e", "c", "t", "o", "r", "y">>))),
      (PathJoin(Cwd, <<"a", "g", "e", "n", "t", "-", "3", "f", "a", "9", "0", "c", "e", "1">>) :> Dir) }

\* the command is run: its options, the working directory, the packaged
\* templates and the filesystem operations that will be refused
InitCli ==
    /\ ConfigIdle
    /\ fs \in CliFilesystems
    /\ fs0 = fs
    /\ renderer = DummyRenderer(<<>>)
    /\ overwrite \in BOOLEAN
    /\ ioFault \in IoFaults
    /\ pc = "idle"
    /\ idx = 0
    /\ context_dict = BlankContext
    /\ render_calls = <<>>
    /\ raised = "none"
    /\ message = <<>>
    /\ returned = NoPath
    /\ storage \in InitialStorages
    /\ storage_edits = 0
    /\ listing = NoListing
    /\ rendered = NoRender
    /\ cli_pc = "start"
    /\ default \in BOOLEAN
    /\ advanced \in BOOLEAN
    /\ collector_calls = <<>>
    /\ effects = <<>>
    /\ int_prompt = NoIntPrompt
    /\ confirmed = "unasked"
    /\ create_calls = 0
    /\ handled = "none"
    /\ shown = {}

NextCli ==
    \/ StartMain \/ CollectAgentInfo \/ ConfigureHosting \/ ConfigureEnvironment
    \/ ConfigureAdvanced \/ ConfirmReady \/ Interrupt \/ CreateProject
    \/ Check \/ Mkdir \/ RenderAndWrite \/ Return
    \/ Finish

SpecCli == InitCli /\ [][NextCli]_vars

\* a test builds AgentContext() and calls the prompt functions on it
InitPrompts ==
    /\ \E gen \in TokenHex :
          /\ kwargs = <<>>
          /\ config = AgentContext(<<>>, gen).config
    /\ outcome = "ok"
    /\ errfields = {}
    /\ assigns = 0
    /\ assigned = NoAssignment
    /\ setattr_raised = "none"
    /\ ScaffoldIdle
    /\ RendererIdle
    /\ CliIdle

NextPrompts == CollectorCall \/ PromptIntCall

SpecPrompts == InitPrompts /\ [][NextPrompts]_vars

Init == InitConfig \/ InitScaffold \/ InitRenderer \/ InitCli \/ InitPrompts

Next == NextConfig \/ NextScaffold \/ NextRenderer \/ NextCli \/ NextPrompts

Spec == Init /\ [][Next]_vars
----------------------------------------------------------------------------
(* Scaffolder properties *)

\* paths of the catalog's outputs inside project directory p
OutputPaths(p) == { PathJoin(p, MapOutputs[i]) : i \in 1..Len(MapOutputs) }

\* C1: create_project without overwrite on a path that already exists fails
\* with ScaffoldError, whose message carries the path and names --overwrite,
\* and leaves the filesystem exactly as it was: nothing created, rendered or
\* written.
C1_ConflictFailsUntouched ==
    (pc # "start" /\ exists(fs0, project_path(config)) /\ ~overwrite) =>
        /\ pc = "failed"
        /\ raised = "ScaffoldError"
        /\ Contains(message, project_path(config))
        /\ Contains(message, <<"-", "-", "o", "v", "e", "r", "w", "r", "i", "t", "e">>)
        /\ fs = fs0
        /\ render_calls = <<>>
        /\ returned = NoPath

C1_Witness ==
    /\ pc = "failed"
    /\ raised = "ScaffoldError"
    /\ PathJoin(project_path(config), <<"c", "u", "s", "t", "o", "m", ".", "t", "x", "t">>) \in DOMAIN fs0

\* C2: with overwrite on an existing directory, at every step of
\* create_project every entry that is not a catalog output keeps its content,
\* nothing but catalog outputs is created, and on return each pre-existing
\* file named like a catalog output holds the new render.
C2_OverwriteTouchesOnlyCatalogFiles ==
    LET p == project_path(config) IN
    (is_dir(fs0, p) /\ overwrite) =>
        /\ \A q \in DOMAIN fs0 :
              q \notin OutputPaths(p) => q \in DOMAIN fs /\ fs[q] = fs0[q]
        /\ \A q \in DOMAIN fs \ DOMAIN fs0 : q \in OutputPaths(p)
        /\ pc = "done" =>
              \A i \in 1..Len(TEMPLATE_MAP) :
                 LET q == PathJoin(p, TEMPLATE_MAP[i].output) IN
                 q \in DOMAIN fs0 =>
                    fs[q] = File(Rendered(TEMPLATE_MAP[i].template, model_dump(config)))

C2_Witness ==
    /\ pc = "done"
    /\ overwrite
    /\ PathJoin(project_path(config), <<"c", "u", "s", "t", "o", "m", ".", "t", "x", "t">>) \in DOMAIN fs0
    /\ PathJoin(project_path(config), <<"R", "E", "A", "D", "M", "E", ".", "m", "d">>) \in DOMAIN fs0
    /\ fs[PathJoin(project_path(config), <<"R", "E", "A", "D", "M", "E", ".", "m", "d">>)]
          # fs0[PathJoin(project_path(config), <<"R", "E", "A", "D", "M", "E", ".", "m", "d">>)]

C4_OutputsFollowListTemplates ==
    LET p == project_path(config)
        listed == renderer.lists
    IN pc = "done" =>
        /\ Len(render_calls) = Len(listed)
        /\ \A i \in 1..Len(listed) :
              Cardinality({ j \in 1..Len(render_calls) : render_calls[j] = listed[i] }) = 1
        /\ \A i \in 1..Len(listed) :
              LET q == PathJoin(p, StripName(listed[i])) IN
              q \in DOMAIN fs /\ fs[q] = File(Rendered(listed[i], model_dump(config)))
        /\ \A q \in DOMAIN fs \ {p} :
              (q \notin DOMAIN fs0 \/ fs[q] # fs0[q]) =>
                 \E i \in 1..Len(listed) : q = PathJoin(p, StripName(listed[i]))

----------------------------------------------------------------------------
(* Configuration properties *)

\* the port the constructor works with: the keyword argument, else the default
PortArg(f) == IF f \in DOMAIN kwargs THEN kwargs[f] ELSE FieldDefault(f, <<>>)

\* the keyword arguments other than the two ports are all valid
OtherArgsValid ==
    \A f \in DOMAIN kwargs \ {"agent_port", "hosting_port"} : FieldValid(f, kwargs[f])

\* C5: a construction with agent_port = hosting_port = p, p in 1024..65535,
\* and every other field valid ends in AgentContextError (neither a
\* ValidationError nor an instance); with two distinct in-range ports and
\* valid fields it never ends in AgentContextError.
C5_EqualPortsConflict ==
    LET a == PortArg("agent_port")
        h == PortArg("hosting_port")
    IN (outcome # "none" /\ OtherArgsValid
          /\ a >= 1024 /\ a <= 65535 /\ h >= 1024 /\ h <= 65535) =>
            /\ a = h => outcome = "AgentContextError"
            /\ a # h => outcome # "AgentContextError"

C5_Witness ==
    /\ outcome = "AgentContextError"
    /\ DOMAIN kwargs = {"agent_port", "hosting_port"}
    /\ kwargs.agent_port = 65535
    /\ kwargs.hosting_port = 65535

\* C6: when at least one field violates its own constraint the construction
\* ends in a ValidationError naming exactly the offending fields, never in
\* AgentContextError, also when the two ports are equal (both 1023 name both
\* port fields).
C6_FieldErrorsPrecedeConflict ==
    (outcome # "none" /\ \E f \in DOMAIN kwargs : ~FieldValid(f, kwargs[f])) =>
        /\ outcome = "ValidationError"
        /\ errfields = { f \in DOMAIN kwargs : ~FieldValid(f, kwargs[f]) }
        /\ (DOMAIN kwargs = {"agent_port", "hosting_port"}
              /\ kwargs.agent_port = 1023 /\ kwargs.hosting_port = 1023)
             => errfields = {"agent_port", "hosting_port"}

C6_Witness ==
    /\ outcome = "ValidationError"
    /\ DOMAIN kwargs = {"agent_port", "hosting_port"}
    /\ kwargs.agent_port = kwargs.hosting_port

\* C7: a construction whose agent_name holds a character that is not a
\* letter, a digit or the space character ends in a ValidationError naming
\* agent_name.
C7_NameCharsetEnforced ==
    (/\ outcome # "none"
     /\ "agent_name" \in DOMAIN kwargs
     /\ \E i \in 1..Len(kwargs.agent_name) : kwargs.agent_name[i] \notin Alnum \cup {" "}) =>
        outcome = "ValidationError" /\ "agent_name" \in errfields

\* C8: for every configuration the value of agent_seed_phrase and the value
\* of agentverse_api_key occur nowhere in repr(config) (which str(config)
\* returns), and both are in model_dump().
C8_ReprHidesSecrets ==
    outcome = "ok" =>
        /\ config.agent_seed_phrase # <<>> =>
              ~Contains(Repr(config), config.agent_seed_phrase)
        /\ Truthy(config.agentverse_api_key) =>
              ~Contains(Repr(config), config.agentverse_api_key)
        /\ model_dump(config).agent_seed_phrase = config.agent_seed_phrase
        /\ model_dump(config).agentverse_api_key = config.agentverse_api_key

\* the derived values the formulas give for fields c; named says whether
\* agent_name counts as present
Formulas(c, named) ==
    LET seed == c.agent_seed_phrase
        d == IF named THEN c.agent_name
             ELSE <<"A", "g", "e", "n", "t", " ">> \o (IF Len(seed) <= 8 THEN seed ELSE SubSeq(seed, 1, 8))
        s == [i \in 1..Len(d) |-> IF d[i] \in {" ", "_"} THEN "-" ELSE LowerChar(d[i])]
    IN [display_name |-> d,
        safe_name |-> s,
        agent_route |-> <<"/">> \o s,
        project_path |-> Cwd \o <<"/">> \o s,
        hosting_endpoint |-> <<"h", "t", "t", "p", ":", "/", "/">> \o c.hosting_address \o <<":">>
                               \o IntToStr(c.hosting_port)]

\* C9: right after a successful construction every derived value equals its
\* formula: display_name is agent_name if present, else "Agent " and the
\* first 8 characters of the seed phrase (all of it if shorter); safe_name is
\* display_name lowercased with spaces and underscores turned into hyphens;
\* agent_route is "/" + safe_name; project_path is cwd/safe_name;
\* hosting_endpoint is "http://" + hosting_address + ":" + hosting_port.
C9_DerivedValuesMatchFormulas ==
    (outcome = "ok" /\ assigns = 0) =>
        LET e == Formulas(config, config.agent_name # None) IN
        /\ display_name(config) = e.display_name
        /\ safe_name(config) = e.safe_name
        /\ agent_route(config) = e.agent_route
        /\ project_path(config) = e.project_path
        /\ hosting_endpoint(config) = e.hosting_endpoint

C9_Witness ==
    /\ outcome = "ok"
    /\ assigns = 0
    /\ config.agent_name = None
    /\ config.agent_seed_phrase = <<"Q", "7", "x">>
    /\ safe_name(config) = <<"a", "g", "e", "n", "t", "-", "q", "7", "x">>

\* C10: in every state reached by a construction followed by field
\* assignments, each derived property read and each derived entry of
\* model_dump() is the formula applied to the current field values
\* (agent_name counting as present when it is a non-empty string).
C10_DerivedValuesFollowCurrentFields ==
    outcome = "ok" =>
        LET e == Formulas(config, config.agent_name # None /\ config.agent_name # <<>>)
            d == model_dump(config)
        IN /\ display_name(config) = e.display_name
           /\ safe_name(config) = e.safe_name
           /\ agent_route(config) = e.agent_route
           /\ project_path(config) = e.project_path
           /\ hosting_endpoint(config) = e.hosting_endpoint
           /\ \A k \in Range(DerivedKeys) : d[k] = e[k]
           /\ \A f \in FieldSet : d[f] = config[f]

C10_Witness ==
    /\ outcome = "ok"
    /\ assigns > 0
    /\ "agent_name" \notin DOMAIN kwargs
    /\ config.agent_name = <<"A", "_", "b">>
    /\ model_dump(config).safe_name = <<"a", "-", "b">>

\* C11: assigning a field of a constructed configuration never raises and
\* stores the value as given, also when it makes agent_port equal to
\* hosting_port or puts a port outside 1024..65535; the two ports are
\* guaranteed distinct and in range only while no assignment has been made.
C11_AssignmentNeverValidates ==
    outcome = "ok" =>
        /\ setattr_raised = "none"
        /\ assigns = 0 =>
              /\ config.agent_port # config.hosting_port
              /\ \A f \in {"agent_port", "hosting_port"} :
                    config[f] >= PortMin /\ config[f] <= PortMax
        /\ assigned.field # "none" =>
              IF assigned.field \in IntFields
              THEN config[assigned.field] = assigned.int
              ELSE config[assigned.field] = assigned.str

C11_Witness ==
    /\ outcome = "ok"
    /\ assigned.field = "agent_port"
    /\ setattr_raised = "none"
    /\ config.agent_port = config.hosting_port

C11_WitnessOutOfRange ==
    /\ outcome = "ok"
    /\ assigned.field = "agent_port"
    /\ config.agent_port = PortMax + 1

\* C12: for every configuration the keys of model_dump() are exactly the 13
\* stored fields and display_name, safe_name, project_path, agent_route and
\* hosting_endpoint, 18 in all; every stored field is there with its value,
\* also when agent_name or agentverse_api_key is None; project_path is the
\* string of cwd/safe_name.
C12_DumpHasEveryKey ==
    outcome = "ok" =>
        LET d == model_dump(config) IN
        /\ DOMAIN d = FieldSet \cup {"display_name", "safe_name", "project_path",
                                     "agent_route", "hosting_endpoint"}
        /\ Cardinality(DOMAIN d) = 18
        /\ Cardinality(FieldSet) = 13
        /\ \A f \in FieldSet : d[f] = config[f]
        /\ d.project_path = Cwd \o <<"/">> \o safe_name(config)

C12_Witness ==
    /\ outcome = "ok"
    /\ config.agent_name = None
    /\ config.agentverse_api_key = None
    /\ {"agent_name", "agentverse_api_key"} \subseteq DOMAIN model_dump(config)
    /\ model_dump(config).agent_name = None

----------------------------------------------------------------------------
(* Scaffolder properties: failures and order of steps *)

\* C14: when create_project has ended in the renderer's error on the k-th
\* catalog template, the exception that left it is the renderer's own, render
\* was called exactly k times (no retry), outputs 1..k-1 hold their render
\* against model_dump(), outputs k.. are as they were before the call, and
\* the project directory is still there; and create_project never returns
\* when the renderer fails on a catalog template.
C14_RenderFailureKeepsEarlierOutputs ==
    LET p == project_path(config)
        k == Len(render_calls)
    IN /\ (pc = "failed" /\ renderer.error # "none" /\ raised = renderer.error) =>
            /\ k >= 1 /\ k = idx
            /\ render_calls = SubSeq(MapTemplates, 1, k)
            /\ MapTemplates[k] \in renderer.fails
            /\ \A i \in 1..(k - 1) : MapTemplates[i] \notin renderer.fails
            /\ is_dir(fs, p)
            /\ \A i \in 1..(k - 1) :
                  fs[PathJoin(p, MapOutputs[i])]
                    = File(Rendered(MapTemplates[i], model_dump(config)))
            /\ \A i \in k..Len(TEMPLATE_MAP) :
                  LET q == PathJoin(p, MapOutputs[i]) IN
                  IF q \in DOMAIN fs0 THEN q \in DOMAIN fs /\ fs[q] = fs0[q]
                  ELSE q \notin DOMAIN fs
       /\ (pc \in {"done", "failed"} /\ renderer.fails \cap Range(MapTemplates) # {}
              /\ raised \notin {"ScaffoldError", "FileExistsError", "OSError",
                                "IsADirectoryError"}) =>
            pc = "failed" /\ raised = renderer.error /\ returned = NoPath

C14_Witness ==
    /\ pc = "failed"
    /\ raised = "TemplateError"
    /\ Len(render_calls) = 3
    /\ Cardinality(iterdir(fs, project_path(config))) = 2
    /\ ~exists(fs0, project_path(config))

\* the exceptions of the filesystem operations: OSError and its subclasses
IoErrors == {"OSError", "FileExistsError", "IsADirectoryError"}

StepOrder ==
    { <<"start", "mkdir">>, <<"start", "failed">>, <<"mkdir", "write">>,
      <<"mkdir", "failed">>, <<"write", "write">>, <<"write", "failed">>,
      <<"write", "done">> }

\* what holds at each position of create_project
OrderInvariant ==
    LET p == project_path(config)
        conflict == exists(fs0, p) /\ ~overwrite
    IN /\ pc \in {"start", "mkdir"} => fs = fs0 /\ render_calls = <<>>
       /\ pc \in {"mkdir", "write", "done"} => ~conflict
       /\ (render_calls # <<>> \/ fs # fs0) => is_dir(fs, p) /\ ~conflict
       /\ conflict => fs = fs0 /\ render_calls = <<>> /\ pc \in {"start", "failed"}
       /\ returned # NoPath <=> pc = "done"
       /\ pc = "done" =>
             /\ render_calls = MapTemplates
             /\ \A i \in 1..Len(TEMPLATE_MAP) :
                   fs[PathJoin(p, MapOutputs[i])]
                     = File(Rendered(MapTemplates[i], context_dict))
             /\ returned = p

\* C16: every create_project invocation goes start -> existence check ->
\* (failed with the conflict) -> mkdir -> render and write, entry by entry,
\* -> done: nothing is created before the check, nothing is rendered or
\* written before the directory exists, nothing is created, rendered or
\* written when the check found a conflict, and the path is returned only
\* after every catalog entry has been rendered and written, in catalog order.
C16_StepsInOrder ==
    /\ []OrderInvariant
    /\ [][/\ <<pc, pc'>> \in StepOrder
          /\ (pc = "start" /\ pc' = "failed") => raised' = "ScaffoldError"
          /\ (pc = "start" /\ pc' = "mkdir") => fs' = fs
          /\ (pc = "write" /\ pc' = "write") =>
                /\ idx' = idx + 1
                /\ render_calls' = Append(render_calls, MapTemplates[idx])
          /\ pc' = "done" => idx > Len(TEMPLATE_MAP)]_vars

C16_Witness ==
    /\ pc = "done"
    /\ render_calls = MapTemplates
    /\ returned = project_path(config)
    /\ is_dir(fs0, project_path(config))
    /\ overwrite

\* create_project has ended after a call with overwrite=True on a target
\* path that held something
OverwriteCallOver ==
    /\ pc \in {"done", "failed"}
    /\ overwrite
    /\ exists(fs0, project_path(config))

\* C30 as stated: with overwrite=True create_project never fails because
\* the target path already exists; whatever is there (an empty directory, a
\* populated directory or a regular file of that name) it goes on to render
\* and write and raises no already-exists error.
C30_OverwriteNeverFailsOnExisting ==
    OverwriteCallOver =>
        /\ raised \notin {"ScaffoldError", "FileExistsError"}
        /\ ioFault.op # "mkdir" => render_calls # <<>>

\* C30 amended: with overwrite=True create_project never raises
\* ScaffoldError; on an existing directory, empty or populated, it raises no
\* already-exists error and goes on to render and write; on a regular file
\* of that name mkdir raises FileExistsError before anything is rendered or
\* written.
C30_OverwriteProceedsOnExistingDirectory ==
    OverwriteCallOver =>
        /\ raised # "ScaffoldError"
        /\ is_dir(fs0, project_path(config)) =>
              /\ raised # "FileExistsError"
              /\ ioFault.op # "mkdir" => render_calls # <<>>
        /\ (~is_dir(fs0, project_path(config)) /\ ioFault.op # "mkdir") =>
              /\ raised = "FileExistsError"
              /\ render_calls = <<>>
              /\ fs = fs0

\* overwrite=True on a populated directory: every template rendered, the
\* path returned
C30_Witness ==
    /\ OverwriteCallOver
    /\ pc = "done"
    /\ iterdir(fs0, project_path(config)) # {}
    /\ Len(render_calls) = Len(MapTemplates)
    /\ returned = project_path(config)

\* overwrite=True on a regular file: FileExistsError
C30_WitnessRegularFile ==
    /\ OverwriteCallOver
    /\ ~is_dir(fs0, project_path(config))
    /\ raised = "FileExistsError"
    /\ render_calls = <<>>

----------------------------------------------------------------------------
(* Renderer properties *)

\* C13: render() called with an identifier that is not in the templates
\* directory, whatever the context, raises TemplateError whose cause is the
\* engine's failure and whose message holds the identifier; and no call of
\* render() ever ends in an exception other than TemplateError.
C13_UnregisteredRaisesTemplateError ==
    rendered.called =>
        /\ rendered.raised \in {"none", "TemplateError"}
        /\ ~rendered.registered =>
              /\ rendered.raised = "TemplateError"
              /\ rendered.cause = "TemplateNotFound"
              /\ Contains(rendered.message, rendered.template_name)
              /\ rendered.text = NoText

C13_Witness ==
    /\ rendered.called
    /\ rendered.template_name = MissingTemplate
    /\ rendered.raised = "TemplateError"
    /\ rendered.cause = "TemplateNotFound"

\* C17: list_templates() returns a fixed catalog: every call returns the
\* identifiers the Scaffolder renders (the keys of TEMPLATE_MAP), the same
\* at every call, whatever files have been added to or removed from the
\* templates directory.
C17_ListTemplatesIsFixedCatalog ==
    /\ [](listing.called => listing.result = Range(MapTemplates))
    /\ [][(listing.called /\ listing'.called) => listing'.result = listing.result]_vars

\* a listing taken after a file was put into the templates directory
C17_InjectedListed ==
    /\ listing.called
    /\ storage_edits = 1
    /\ InjectedTemplate \in listing.result
    /\ listing.result # Range(MapTemplates)

\* C18: AgentContext() with no arguments always succeeds, with agent_port
\* 8000, hosting_port 8080, no agent_name, a generated seed phrase of 64
\* lowercase hexadecimal characters, and safe_name "agent-" followed by the
\* first 8 characters of that seed phrase.
C18_DefaultsConstruct ==
    (outcome # "none" /\ kwargs = <<>> /\ assigns = 0) =>
        LET hex == Digit \cup {"a", "b", "c", "d", "e", "f"}
            seed == config.agent_seed_phrase
        IN /\ outcome = "ok"
           /\ config.agent_port = 8000
           /\ config.hosting_port = 8080
           /\ config.agent_name = None
           /\ Len(seed) = 64
           /\ AllIn(seed, hex)
           /\ Len(safe_name(config)) = 14
           /\ safe_name(config) = <<"a", "g", "e", "n", "t", "-">> \o SubSeq(seed, 1, 8)
           /\ AllIn(SubSeq(safe_name(config), 7, 14), hex)

C18_Witness ==
    /\ outcome = "ok"
    /\ kwargs = <<>>
    /\ assigns = 0
    /\ safe_name(config) = <<"a", "g", "e", "n", "t", "-", "3", "f", "a", "9", "0", "c", "e", "1">>

----------------------------------------------------------------------------
(* CLI properties *)

\* C20: in one run of the command create_project is invoked at most once,
\* and only after collect_configuration has returned: the configuration is
\* constructed, every collector has been called, and the final question was
\* answered yes (or the quick start mode asked none).  When the user answers
\* no, or interrupts the wizard, main handles the UserAbortError or the
\* KeyboardInterrupt, create_project is never invoked and the filesystem is
\* as it was.
C20_CreateOnlyAfterCollection ==
    /\ create_calls <= 1
    /\ create_calls = 1 =>
          /\ outcome = "ok"
          /\ cli_pc \in {"scaffolding", "exited"}
          /\ IF default THEN confirmed = "unasked" /\ collector_calls = <<>>
             ELSE confirmed = "yes" /\ Len(collector_calls) = 4
          /\ handled \notin {"UserAbortError", "KeyboardInterrupt"}
    /\ create_calls = 0 =>
          pc = "idle" /\ fs = fs0 /\ render_calls = <<>> /\ returned = NoPath
    /\ confirmed = "no" =>
          handled = "UserAbortError" /\ cli_pc = "exited" /\ create_calls = 0
    /\ handled \in {"UserAbortError", "KeyboardInterrupt"} =>
          cli_pc = "exited" /\ create_calls = 0 /\ fs \in CliFilesystems

C20_Witness ==
    /\ cli_pc = "exited"
    /\ advanced
    /\ confirmed = "no"
    /\ handled = "UserAbortError"
    /\ Len(collector_calls) = 4
    /\ create_calls = 0
    /\ fs = fs0

\* the positions of collector_calls that call the named collector
CallsOf(collector) ==
    { i \in 1..Len(collector_calls) : collector_calls[i].collector = collector }

\* collect_configuration has been through all its collector calls
CollectionOver == cli_pc = "confirm" \/ confirmed # "unasked"

\* C21: in standard mode (neither --default nor --advanced), once
\* collect_configuration is through its collectors it has called the hosting
\* collector, the environment/keys collector and the advanced-settings
\* collector exactly once each, every call with skip=True, none of them
\* asking a question or changing a field.
C21_StandardModeCallsEachCollectorOnce ==
    (CollectionOver /\ ~default /\ ~advanced) =>
        /\ \A collector \in {"collect_hosting_info", "collect_environment_and_keys",
                              "collect_advanced_info"} :
              Cardinality(CallsOf(collector)) = 1
        /\ \A i \in 2..Len(collector_calls) :
              /\ collector_calls[i].skip
              /\ effects[i].prompts = 0
              /\ effects[i].changed = {}

\* what does hold in standard mode: collect_hosting_info is called twice
\* and collect_environment_and_keys once between them, all with skip=True
C21_HostingCollectorCalledTwice ==
    /\ CollectionOver /\ ~default /\ ~advanced
    /\ Cardinality(CallsOf("collect_hosting_info")) = 2
    /\ Cardinality(CallsOf("collect_environment_and_keys")) = 1
    /\ CallsOf("collect_advanced_info") = {}
    /\ \A i \in 2..Len(collector_calls) :
          collector_calls[i].skip /\ effects[i].prompts = 0 /\ effects[i].changed = {}

\* C22: a collect_hosting_info call with skip=False assigns
\* config.hosting_address and config.hosting_port from the user's answers.
C22_HostingCollectorAssignsHosting ==
    \A i \in CallsOf("collect_hosting_info") :
        ~collector_calls[i].skip =>
            {"hosting_address", "hosting_port"} \subseteq effects[i].fields

\* what the wizard does instead: whatever the answers, the configuration it
\* hands on still has the default hosting address and hosting port
C22_HostingStaysDefault ==
    (cli_pc \notin {"idle", "start"} /\ outcome = "ok") =>
        /\ config.hosting_address = DefaultHostingAddress
        /\ config.hosting_port = DefaultHostingPort

----------------------------------------------------------------------------
(* Configuration properties: the numeric limits *)

\* the keyword argument f of the last construction is a number outside the
\* range the claim gives for its field
OutOfRange(f) ==
    /\ f \in DOMAIN kwargs
    /\ CASE f \in {"agent_port", "hosting_port"} -> kwargs[f] < 1024 \/ kwargs[f] > 65535
         [] f = "cleanup_interval_seconds" -> kwargs[f] < 10
         [] f \in {"max_processed_messages", "processed_message_ttl_minutes",
                   "rate_limit_max_requests", "rate_limit_window_minutes"} -> kwargs[f] < 1
         [] OTHER -> FALSE

\* the keyword argument f of the last construction is a number exactly at a
\* limit of its field
AtBoundary(f) ==
    /\ f \in DOMAIN kwargs
    /\ CASE f \in {"agent_port", "hosting_port"} -> kwargs[f] \in {1024, 65535}
         [] f = "cleanup_interval_seconds" -> kwargs[f] = 10
         [] f \in {"max_processed_messages", "processed_message_ttl_minutes",
                   "rate_limit_max_requests", "rate_limit_window_minutes"} -> kwargs[f] = 1
         [] OTHER -> FALSE

\* C25: a construction given a port outside 1024..65535, a
\* cleanup_interval_seconds below 10, or a max_processed_messages,
\* processed_message_ttl_minutes, rate_limit_max_requests or
\* rate_limit_window_minutes below 1 ends in the field-validation error, never
\* in the conflict error and never in an instance; a construction whose
\* arguments all sit exactly on those limits, with two different ports,
\* succeeds.
C25_NumericLimits ==
    outcome # "none" =>
        /\ (\E f \in IntFields : OutOfRange(f)) =>
              /\ outcome = "ValidationError"
              /\ \A f \in IntFields : OutOfRange(f) => f \in errfields
        /\ ( /\ kwargs # <<>>
             /\ \A f \in DOMAIN kwargs : AtBoundary(f)
             /\ FieldValues(kwargs, config.agent_seed_phrase).agent_port
                  # FieldValues(kwargs, config.agent_seed_phrase).hosting_port ) =>
              outcome = "ok"

\* both ports are 65536: out of range and equal, reported as a field error
\* for both and not as the conflict
C25_Witness ==
    /\ kwargs = [agent_port |-> 65536, hosting_port |-> 65536]
    /\ outcome = "ValidationError"
    /\ errfields = {"agent_port", "hosting_port"}

\* the two ports at the two ends of the range
C25_WitnessBoundary ==
    /\ kwargs = [agent_port |-> 1024, hosting_port |-> 65535]
    /\ outcome = "ok"
    /\ config.agent_port = 1024 /\ config.hosting_port = 65535

\* C27: the safe_name of a configuration that was constructed successfully
\* is made of lowercase letters, digits and hyphens only: no space, tab,
\* newline, uppercase letter or path separator.
C27_SafeNameIsSlug ==
    (outcome = "ok" /\ assigns = 0 /\ cli_pc = "idle") =>
        AllIn(safe_name(config), Lower \cup Digit \cup {"-"})

\* a constructed configuration whose safe_name holds a tab
C27_SafeNameWithTab ==
    /\ outcome = "ok" /\ assigns = 0
    /\ kwargs = [agent_name |-> <<"A", "\t", "b">>]
    /\ safe_name(config) = <<"a", "\t", "b">>

\* what does hold: no uppercase letter, space, underscore or path separator
C27_SafeNameWithoutSpaces ==
    (outcome = "ok" /\ assigns = 0 /\ cli_pc = "idle") =>
        AllIn(safe_name(config), Lower \cup Digit \cup {"-", "\t", "\n"})

----------------------------------------------------------------------------
(* Prompt properties *)

\* C23: a collector called with skip=True (collect_agent_info,
\* collect_hosting_info or collect_environment_and_keys) asks no question,
\* assigns no field, leaves every field with the value it had, and prints
\* exactly one success message.
C23_SkippedCollectorDoesNothing ==
    \A i \in 1..Len(collector_calls) :
        collector_calls[i].skip =>
            /\ effects[i].prompts = 0
            /\ effects[i].fields = {}
            /\ effects[i].changed = {}
            /\ effects[i].successes = 1

\* a call that changed fields is followed by a skipped call: the skipped
\* call leaves the changed configuration as it is
C23_Witness ==
    /\ Len(collector_calls) = 2
    /\ collector_calls[1] = Call("collect_hosting_info", FALSE)
    /\ effects[1].changed # {}
    /\ collector_calls[2] = Call("collect_agent_info", TRUE)
    /\ effects[2].changed = {}
    /\ effects[2].prompts = 0
    /\ config.max_processed_messages = 0

\* what Python's int() makes of each typed line of IntResponses, written
\* out: an empty line stands for the default d
IntMeaning(line, d) ==
    CASE line = Enter -> [ok |-> TRUE, value |-> d]
      [] line = <<"0">> -> [ok |-> TRUE, value |-> 0]
      [] line = <<"-", "5">> -> [ok |-> TRUE, value |-> 0 - 5]
      [] line = <<" ", "4", "2", " ">> -> [ok |-> TRUE, value |-> 42]
      [] line = <<"1", "_", "0">> -> [ok |-> TRUE, value |-> 10]
      [] line = <<"+", "7">> -> [ok |-> TRUE, value |-> 7]
      [] OTHER -> [ok |-> FALSE, value |-> 0]

\* the positions of the typed lines that are integers
ValidPositions(rs, d) == { n \in 1..Len(rs) : IntMeaning(rs[n], d).ok }

\* C24: prompt_int asks again after every line that is not an integer and
\* returns the value of the first line that is one, whatever its sign or
\* size: when the first integer is the n-th line, it has asked exactly n
\* times; it returns as soon as an integer is typed, and it does not return
\* while none has been.
C24_PromptIntReturnsFirstInteger ==
    int_prompt.called =>
        LET rs == int_prompt.responses
            d == int_prompt.default_value
            valid == ValidPositions(rs, d)
        IN IF valid = {}
           THEN ~int_prompt.result.ok
           ELSE LET n == CHOOSE k \in valid : \A m \in valid : k <= m IN
                /\ int_prompt.result.ok
                /\ int_prompt.result.prompts = n
                /\ int_prompt.result.value = IntMeaning(rs[n], d).value

\* two lines that are not integers, then a negative number below every
\* field's minimum: asked three times, -5 returned
C24_Witness ==
    /\ int_prompt.called
    /\ int_prompt.responses = << <<"a", "b", "c">>, <<"1", ".", "5">>, <<"-", "5">> >>
    /\ int_prompt.result = [ok |-> TRUE, value |-> 0 - 5, prompts |-> 3]

----------------------------------------------------------------------------
(* CLI properties: the configuration handed to the Scaffolder *)

\* C26: whatever the mode and the answers, the configuration that
\* collect_configuration returns, and create_project then consumes,
\* satisfies every constraint a construction enforces: each field is valid,
\* in particular 1024 <= agent_port <= 65535, and agent_port differs from
\* hosting_port.
C26_WizardReturnsValidConfiguration ==
    (cli_pc \in {"create", "scaffolding"} \/ create_calls > 0) =>
        /\ \A f \in FieldSet : FieldValid(f, config[f])
        /\ config.agent_port >= 1024 /\ config.agent_port <= 65535
        /\ config.agent_port # config.hosting_port

\* a project written from a configuration whose two ports are equal
C26_ProjectWithEqualPorts ==
    /\ cli_pc = "exited"
    /\ "Agent Created Successfully!" \in shown
    /\ config.agent_port = config.hosting_port

\* a project written from a configuration whose agent port is below 1024
\* and whose name, with an underscore, the name pattern rejects
C26_ProjectWithInvalidFields ==
    /\ cli_pc = "exited"
    /\ "Agent Created Successfully!" \in shown
    /\ config.agent_port = 80
    /\ ~FieldValid("agent_name", config.agent_name)

----------------------------------------------------------------------------
(* CLI properties: how main ends *)

\* something stopped the run: the construction of the configuration or
\* create_project raised, the user refused the final confirmation, or the
\* user interrupted a question
RunFailed ==
    \/ outcome \notin {"none", "ok"}
    \/ raised # "none"
    \/ confirmed = "no"
    \/ handled = "KeyboardInterrupt"

C29_ConflictHandledByDedicatedClause ==
    (cli_pc = "exited" /\ create_calls = 1 /\ ~overwrite
       /\ exists(fs0, project_path(config))) =>
        /\ handled = "FileExistsError"
        /\ shown = {"Error: Project already exists"}

\* what main does with the conflict: the generic clause, with the failure
\* message
C29_ConflictHandledByGenericClause ==
    /\ cli_pc = "exited"
    /\ ~overwrite
    /\ is_dir(fs0, project_path(config))
    /\ raised = "ScaffoldError"
    /\ handled = "Exception"
    /\ shown = {"Failed to create agent"}
    /\ fs = fs0

====
